---- MODULE Spec2Model ----
(***************************************************************************)
(* Model of the tty-mood classifier of ABSURDTTY.                          *)
(*                                                                         *)
(* Numbers.  The program computes in f64.  The model computes in exact     *)
(* fixed point: a signal score x is the integer 1000*x (SCORE_ONE is 1.0), *)
(* a weight w of a scoring formula is the integer 100*w (WEIGHT_ONE is     *)
(* 1.0), and a candidate score or a confidence c is the integer 100000*c   *)
(* (CONF_ONE is 1.0).  A product weight*score is therefore exact and no    *)
(* division is ever taken.  Rounding of f64 is not modelled.               *)
(***************************************************************************)
EXTENDS Integers, Sequences, FiniteSets, TLC

VARIABLES history, detected, signals, scores, mood, pc

(* The classifier: the history, the result of each detector, the merged     *)
(* collection, the candidate scores, the mood and the position of the run.  *)
cvars == << history, detected, signals, scores, mood, pc >>

VARIABLES files, dir, wstate, old, payload, writes, sessions

(* The atomic writer of absurd-core: the files at the target and the temp   *)
(* path, whether the parent directory exists, the state of the writer, the  *)
(* target as it was when the writer was created, the bytes handed to        *)
(* write_all, and the numbers of write_all calls and of writers created.    *)
wvars == << files, dir, wstate, old, payload, writes, sessions >>

VARIABLES inodes, links, calls

(* Two write_atomic calls of one process on one target: the files of the    *)
(* file system (the bytes of each), the file each path names, and for each  *)
(* call its position, its open file, its content and its result.            *)
tvars == << inodes, links, calls >>

vars == << history, detected, signals, scores, mood, pc,
           files, dir, wstate, old, payload, writes, sessions,
           inodes, links, calls >>

----------------------------------------------------------------------------
(* Units *)

SCORE_ONE == 1000

WEIGHT_ONE == 100

CONF_ONE == SCORE_ONE * WEIGHT_ONE

(* Bounds of the model: the longest collection built by free add calls and *)
(* the longest list of history entries.                                     *)
MaxSignals == 2

MaxEntries == 3

----------------------------------------------------------------------------
(* absurd-lexicon: moods *)

MoodAll ==
    << "FeralProductivity", "Exhausted", "Methodical", "ChaoticNeutral",
       "BureaucraticZen", "AmbientDrift", "RecursiveDoubt", "EmergencyMode" >>

MoodId == { MoodAll[i] : i \in 1..Len(MoodAll) } \cup { "Neutral" }

f64_max(a, b) == IF a >= b THEN a ELSE b

f64_min(a, b) == IF a <= b THEN a ELSE b

f64_clamp(x, lo, hi) == IF x < lo THEN lo ELSE IF x > hi THEN hi ELSE x

(* Mood::new without the clamp of the confidence. *)
Mood_new_unclamped(id, confidence) ==
    [ id |-> id, confidence |-> confidence, notes |-> << >> ]

Mood_new(id, confidence) ==
    [ id |-> id, confidence |-> f64_clamp(confidence, 0, CONF_ONE), notes |-> << >> ]

Mood_neutral == Mood_new("Neutral", 0)

Mood_with_note(m, note) == [ m EXCEPT !.notes = Append(@, note) ]

----------------------------------------------------------------------------
(* tty-mood: signals *)

NoNote == << >>

(* Signal::new without the clamp of the score. *)
Signal_new_unclamped(id, score) == [ id |-> id, score |-> score, note |-> NoNote ]

Signal_new(id, score) ==
    [ id |-> id, score |-> f64_clamp(score, 0, SCORE_ONE), note |-> NoNote ]

Signal_with_note(s, note) == [ s EXCEPT !.note = note ]

(* is_strong with a strict comparison. *)
Signal_is_strong_gt(s) == s.score > 7 * (SCORE_ONE \div 10)

Signal_is_strong(s) == s.score >= 7 * (SCORE_ONE \div 10)

SignalCollection_new == << >>

SignalCollection_add(sigs, s) == Append(sigs, s)

(* get that searches from the back: the position of the last match. *)
SignalCollection_get_last(sigs, id) ==
    IF \E i \in 1..Len(sigs) : sigs[i].id = id
    THEN CHOOSE i \in 1..Len(sigs) :
            /\ sigs[i].id = id
            /\ \A j \in (i + 1)..Len(sigs) : sigs[j].id # id
    ELSE 0

(* Position of the first signal with this id, 0 when there is none. *)
SignalCollection_get(sigs, id) ==
    IF \E i \in 1..Len(sigs) : sigs[i].id = id
    THEN CHOOSE i \in 1..Len(sigs) :
            /\ sigs[i].id = id
            /\ \A j \in 1..(i - 1) : sigs[j].id # id
    ELSE 0

SignalCollection_score(sigs, id) ==
    LET i == SignalCollection_get(sigs, id)
    IN  IF i = 0 THEN 0 ELSE sigs[i].score

SignalCollection_strong_signals(sigs) == SelectSeq(sigs, Signal_is_strong)

(* merge that puts the other collection in front. *)
SignalCollection_merge_front(sigs, other) == other \o sigs

SignalCollection_merge(sigs, other) == sigs \o other

----------------------------------------------------------------------------
(* tty-mood: mood scoring.  S is SignalCollection::score on the collection. *)

(* score_feral_productivity without the floor at 0. *)
score_feral_productivity_unfloored(sigs) ==
    LET S(id) == SignalCollection_score(sigs, id)
        base == S("cadence_high") * 35 + S("command_diversity_high") * 25
                + S("late_night_orbit") * 20 + S("burst_pattern") * 20
        typo_penalty == S("typo_rate_high") * 30
    IN  base - typo_penalty

score_feral_productivity(sigs) ==
    LET S(id) == SignalCollection_score(sigs, id)
        base == S("cadence_high") * 35 + S("command_diversity_high") * 25
                + S("late_night_orbit") * 20 + S("burst_pattern") * 20
        typo_penalty == S("typo_rate_high") * 30
    IN  f64_max(base - typo_penalty, 0)

(* score_exhausted with the typo score taken at full weight. *)
score_exhausted_full_typo(sigs) ==
    LET S(id) == SignalCollection_score(sigs, id)
        typo_score == S("typo_rate_high") * 8 + S("typo_rate_medium") * 4
    IN  S("cadence_low") * 30 + typo_score * 10 + S("repeat_commands") * 20
        + S("late_night_orbit") * 20

score_exhausted(sigs) ==
    LET S(id) == SignalCollection_score(sigs, id)
        \* typo_score in tenths of a weight: 0.8 and 0.4, then times 0.3
        typo_score == S("typo_rate_high") * 8 + S("typo_rate_medium") * 4
    IN  S("cadence_low") * 30 + typo_score * 3 + S("repeat_commands") * 20
        + S("late_night_orbit") * 20

(* score_methodical with the workflow bonus not halved. *)
score_methodical_full_bonus(sigs) ==
    LET S(id) == SignalCollection_score(sigs, id)
        workflow_bonus == (S("build_cycle") + S("git_heavy")) * 10
        chaos_penalty == S("burst_pattern") * 20 + S("context_switching") * 20
    IN  f64_max(S("steady_rhythm") * 40 + S("typo_rate_low") * 20
                + workflow_bonus * 2 - chaos_penalty, 0)

score_methodical(sigs) ==
    LET S(id) == SignalCollection_score(sigs, id)
        \* workflow_bonus = (build_cycle + git_heavy) * 0.5, then times 0.2
        workflow_bonus == (S("build_cycle") + S("git_heavy")) * 5
        chaos_penalty == S("burst_pattern") * 20 + S("context_switching") * 20
    IN  f64_max(S("steady_rhythm") * 40 + S("typo_rate_low") * 20
                + workflow_bonus * 2 - chaos_penalty, 0)

score_chaotic_neutral(sigs) ==
    LET S(id) == SignalCollection_score(sigs, id)
        base == S("command_diversity_high") * 30 + S("burst_pattern") * 25
                + S("context_switching") * 25 + S("time_spread") * 20
        order_penalty == S("steady_rhythm") * 30
    IN  f64_max(base - order_penalty, 0)

(* score_bureaucratic_zen with typo_rate_low subtracted instead of added. *)
score_bureaucratic_zen_sign_slip(sigs) ==
    LET S(id) == SignalCollection_score(sigs, id)
        base == S("steady_rhythm") * 30 + S("git_heavy") * 30
                - S("typo_rate_low") * 20 + S("weekday_bound") * 20
        chaos_penalty == S("late_night_orbit") * 20
    IN  f64_max(base - chaos_penalty, 0)

score_bureaucratic_zen(sigs) ==
    LET S(id) == SignalCollection_score(sigs, id)
        base == S("steady_rhythm") * 30 + S("git_heavy") * 30
                + S("typo_rate_low") * 20 + S("weekday_bound") * 20
        chaos_penalty == S("late_night_orbit") * 20
    IN  f64_max(base - chaos_penalty, 0)

score_ambient_drift(sigs) ==
    LET S(id) == SignalCollection_score(sigs, id)
    IN  S("command_diversity_low") * 35 + S("cadence_low") * 35
        + S("status_check_loop") * 30

(* score_recursive_doubt with the bonus thresholds not strict. *)
score_recursive_doubt_ge(sigs) ==
    LET S(id) == SignalCollection_score(sigs, id)
        status_loop == S("status_check_loop")
        git_heavy == S("git_heavy")
        base == status_loop * 35 + S("repeat_commands") * 25
                + S("correction_pattern") * 20
        git_bonus == IF status_loop >= 5 * (SCORE_ONE \div 10)
                        /\ git_heavy >= 5 * (SCORE_ONE \div 10)
                     THEN 20 * SCORE_ONE
                     ELSE 0
    IN  f64_min(base + git_bonus + git_heavy * 10, CONF_ONE)

score_recursive_doubt(sigs) ==
    LET S(id) == SignalCollection_score(sigs, id)
        status_loop == S("status_check_loop")
        git_heavy == S("git_heavy")
        base == status_loop * 35 + S("repeat_commands") * 25
                + S("correction_pattern") * 20
        git_bonus == IF status_loop > 5 * (SCORE_ONE \div 10)
                        /\ git_heavy > 5 * (SCORE_ONE \div 10)
                     THEN 20 * SCORE_ONE
                     ELSE 0
    IN  f64_min(base + git_bonus + git_heavy * 10, CONF_ONE)

(* score_emergency_mode with a gate of one indicator. *)
score_emergency_mode_gate_one(sigs) ==
    LET S(id) == SignalCollection_score(sigs, id)
        burst == S("burst_pattern")
        typo_high == S("typo_rate_high")
        corrections == S("correction_pattern")
        cadence_high == S("cadence_high")
        base == burst * 30 + typo_high * 30 + corrections * 20 + cadence_high * 20
        indicators == << burst > 3 * (SCORE_ONE \div 10),
                         typo_high > 3 * (SCORE_ONE \div 10),
                         corrections > 2 * (SCORE_ONE \div 10),
                         cadence_high > 5 * (SCORE_ONE \div 10) >>
        indicator_count == Cardinality({ i \in 1..4 : indicators[i] })
    IN  IF indicator_count < 1 THEN 0 ELSE base

score_emergency_mode(sigs) ==
    LET S(id) == SignalCollection_score(sigs, id)
        burst == S("burst_pattern")
        typo_high == S("typo_rate_high")
        corrections == S("correction_pattern")
        cadence_high == S("cadence_high")
        base == burst * 30 + typo_high * 30 + corrections * 20 + cadence_high * 20
        indicators == << burst > 3 * (SCORE_ONE \div 10),
                         typo_high > 3 * (SCORE_ONE \div 10),
                         corrections > 2 * (SCORE_ONE \div 10),
                         cadence_high > 5 * (SCORE_ONE \div 10) >>
        indicator_count == Cardinality({ i \in 1..4 : indicators[i] })
    IN  IF indicator_count < 2 THEN 0 ELSE base

----------------------------------------------------------------------------
(* tty-mood: detect_mood *)

(* The vector of (MoodId, score) pairs built at the head of detect_mood. *)
candidate_scores(sigs) ==
    << << "FeralProductivity", score_feral_productivity(sigs) >>,
       << "Exhausted", score_exhausted(sigs) >>,
       << "Methodical", score_methodical(sigs) >>,
       << "ChaoticNeutral", score_chaotic_neutral(sigs) >>,
       << "BureaucraticZen", score_bureaucratic_zen(sigs) >>,
       << "AmbientDrift", score_ambient_drift(sigs) >>,
       << "RecursiveDoubt", score_recursive_doubt(sigs) >>,
       << "EmergencyMode", score_emergency_mode(sigs) >> >>

(* The comparison closure of max_by: partial_cmp on the scores. *)
partial_cmp(a, b) == IF a < b THEN "Less" ELSE IF a > b THEN "Greater" ELSE "Equal"

(* Iterator::max_by folds from the left and keeps the accumulator only when *)
(* it compares Greater than the next element.                               *)
(* A selection that keeps the accumulator on Equal: the first maximum wins. *)
max_by_select_first(x, y) == IF partial_cmp(x[2], y[2]) = "Less" THEN y ELSE x

max_by_select(x, y) == IF partial_cmp(x[2], y[2]) = "Greater" THEN x ELSE y

RECURSIVE max_by_fold(_, _, _)
max_by_fold(seq, i, acc) ==
    IF i > Len(seq) THEN acc
    ELSE max_by_fold(seq, i + 1, max_by_select(acc, seq[i]))

Iterator_max_by(seq) ==
    IF Len(seq) = 0 THEN << "Neutral", 0 >>
    ELSE max_by_fold(seq, 2, seq[1])

InsufficientNote == << "Insufficient signal strength for classification" >>

RECURSIVE attach_notes(_, _, _)
attach_notes(m, strong, i) ==
    IF i > Len(strong) THEN m
    ELSE attach_notes(IF strong[i].note # NoNote
                      THEN Mood_with_note(m, strong[i].note)
                      ELSE m,
                      strong, i + 1)

(* detect_mood with the minimum confidence compared by <=. *)
detect_mood_le(sigs) ==
    LET best == Iterator_max_by(candidate_scores(sigs))
        best_mood == best[1]
        best_score == best[2]
    IN  IF best_score <= 30 * SCORE_ONE
        THEN Mood_with_note(Mood_neutral, InsufficientNote)
        ELSE attach_notes(Mood_new(best_mood, best_score),
                          SignalCollection_strong_signals(sigs), 1)

(* detect_mood returning the bare neutral mood. *)
detect_mood_bare_neutral(sigs) ==
    LET best == Iterator_max_by(candidate_scores(sigs))
        best_mood == best[1]
        best_score == best[2]
    IN  IF best_score < 30 * SCORE_ONE
        THEN Mood_neutral
        ELSE attach_notes(Mood_new(best_mood, best_score),
                          SignalCollection_strong_signals(sigs), 1)

detect_mood(sigs) ==
    LET best == Iterator_max_by(candidate_scores(sigs))
        best_mood == best[1]
        best_score == best[2]
    IN  IF best_score < 30 * SCORE_ONE
        THEN Mood_with_note(Mood_neutral, InsufficientNote)
        ELSE attach_notes(Mood_new(best_mood, best_score),
                          SignalCollection_strong_signals(sigs), 1)

----------------------------------------------------------------------------
(* tty-mood: history entries.  A command is the sequence of its characters, *)
(* a timestamp is a number of seconds since the Unix epoch (UTC), or        *)
(* NoTimestamp.                                                             *)

NoTimestamp == -1

HistoryEntry_new(command, timestamp) == [ command |-> command, timestamp |-> timestamp ]

IsWhitespace(c) == c = " "

RECURSIVE SkipWhitespace(_, _)
SkipWhitespace(cmd, i) ==
    IF i <= Len(cmd) /\ IsWhitespace(cmd[i]) THEN SkipWhitespace(cmd, i + 1) ELSE i

RECURSIVE WordEnd(_, _)
WordEnd(cmd, i) ==
    IF i <= Len(cmd) /\ ~IsWhitespace(cmd[i]) THEN WordEnd(cmd, i + 1) ELSE i

(* split_whitespace().next().unwrap_or(&self.command) *)
command_name(e) ==
    LET b == SkipWhitespace(e.command, 1)
    IN  IF b > Len(e.command) THEN e.command
        ELSE SubSeq(e.command, b, WordEnd(e.command, b) - 1)

Chars(str) ==
    CASE str = "ls" -> << "l", "s" >>     [] str = "cd" -> << "c", "d" >>
      [] str = "cp" -> << "c", "p" >>     [] str = "mv" -> << "m", "v" >>
      [] str = "rm" -> << "r", "m" >>     [] str = "cat" -> << "c", "a", "t" >>
      [] str = "man" -> << "m", "a", "n" >> [] str = "top" -> << "t", "o", "p" >>
      [] str = "ps" -> << "p", "s" >>     [] str = "df" -> << "d", "f" >>
      [] str = "du" -> << "d", "u" >>     [] str = "ln" -> << "l", "n" >>
      [] str = "vi" -> << "v", "i" >>     [] str = "fg" -> << "f", "g" >>
      [] str = "bg" -> << "b", "g" >>     [] str = "id" -> << "i", "d" >>
      [] str = "wc" -> << "w", "c" >>     [] str = "nl" -> << "n", "l" >>
      [] str = "od" -> << "o", "d" >>     [] str = "tr" -> << "t", "r" >>
      [] str = "xd" -> << "x", "d" >>     [] str = "bc" -> << "b", "c" >>
      [] str = "dc" -> << "d", "c" >>     [] str = "go" -> << "g", "o" >>
      [] str = "oc" -> << "o", "c" >>     [] str = "gh" -> << "g", "h" >>
      [] str = "git" -> << "g", "i", "t" >> [] str = "gti" -> << "g", "t", "i" >>
      [] str = "sl" -> << "s", "l" >>     [] str = "pwd" -> << "p", "w", "d" >>
      [] str = "cta" -> << "c", "t", "a" >>
      [] str = "python" -> << "p", "y", "t", "h", "o", "n" >>
      [] str = "hub" -> << "h", "u", "b" >> [] str = "tig" -> << "t", "i", "g" >>
      [] str = "vim" -> << "v", "i", "m" >> [] str = "hx" -> << "h", "x" >>
      [] str = "npm" -> << "n", "p", "m" >> [] str = "gcc" -> << "g", "c", "c" >>
      [] str = "apt" -> << "a", "p", "t" >> [] str = "yay" -> << "y", "a", "y" >>
      [] str = "dnf" -> << "d", "n", "f" >> [] str = "pip" -> << "p", "i", "p" >>
      [] str = "head" -> << "h", "e", "a", "d" >>
      [] str = "tail" -> << "t", "a", "i", "l" >>
      [] str = "stat" -> << "s", "t", "a", "t" >>
      [] str = "file" -> << "f", "i", "l", "e" >>
      [] str = "nvim" -> << "n", "v", "i", "m" >>
      [] str = "nano" -> << "n", "a", "n", "o" >>
      [] str = "code" -> << "c", "o", "d", "e" >>
      [] str = "make" -> << "m", "a", "k", "e" >>
      [] str = "yarn" -> << "y", "a", "r", "n" >>
      [] str = "pnpm" -> << "p", "n", "p", "m" >>
      [] str = "htop" -> << "h", "t", "o", "p" >>
      [] str = "kill" -> << "k", "i", "l", "l" >>
      [] str = "brew" -> << "b", "r", "e", "w" >>
      [] str = "micro" -> << "m", "i", "c", "r", "o" >>
      [] str = "emacs" -> << "e", "m", "a", "c", "s" >>
      [] str = "cargo" -> << "c", "a", "r", "g", "o" >>
      [] str = "rustc" -> << "r", "u", "s", "t", "c" >>
      [] str = "cmake" -> << "c", "m", "a", "k", "e" >>
      [] str = "dmesg" -> << "d", "m", "e", "s", "g" >>
      [] str = "pacman" -> << "p", "a", "c", "m", "a", "n" >>
      [] str = "lazygit" -> << "l", "a", "z", "y", "g", "i", "t" >>
      [] str = "systemctl" -> << "s", "y", "s", "t", "e", "m", "c", "t", "l" >>
      [] str = "journalctl" -> << "j", "o", "u", "r", "n", "a", "l", "c", "t", "l" >>

is_known_short_command(cmd) ==
    cmd \in { Chars(w) : w \in
        { "ls", "cd", "cp", "mv", "rm", "cat", "man", "top",
          "ps", "df", "du", "ln", "vi", "fg", "bg", "id",
          "wc", "nl", "od", "tr", "xd", "bc", "dc", "go",
          "oc", "gh" } }

(* looks_like_typo for names shorter than three characters only. *)
looks_like_typo_lt(e) ==
    LET cmd == command_name(e)
    IN  Len(cmd) < 3 /\ ~is_known_short_command(cmd)

looks_like_typo(e) ==
    LET cmd == command_name(e)
    IN  Len(cmd) <= 3 /\ ~is_known_short_command(cmd)

(* A missing timestamp taken for an instant. *)
HasTimestamp_defaulted(e) == TRUE

HasTimestamp(e) == e.timestamp # NoTimestamp

(* OffsetDateTime::hour of a UTC instant *)
hour(e) == (e.timestamp \div 3600) % 24

(* Weekday::number_from_monday: 1 January 1970 was a Thursday *)
weekday(e) == (((e.timestamp \div 86400) + 3) % 7) + 1

is_late_night(e) == HasTimestamp(e) /\ ~(hour(e) >= 4 /\ hour(e) < 22)

is_early_morning(e) == HasTimestamp(e) /\ hour(e) >= 5 /\ hour(e) <= 7

is_lunch_time(e) == HasTimestamp(e) /\ hour(e) >= 12 /\ hour(e) <= 13

is_weekend(e) == HasTimestamp(e) /\ weekday(e) >= 6

----------------------------------------------------------------------------
(* Ratios.  A detector computes a ratio num/den exactly; its comparisons    *)
(* with a threshold are exact cross-multiplications.  Signal::new receives  *)
(* the ratio as a score in units of 1/SCORE_ONE, rounded down.              *)

ToScore(num, den) == (num * SCORE_ONE) \div den

Count(seq, P(_)) == Cardinality({ i \in 1..Len(seq) : P(seq[i]) })

RECURSIVE Insert(_, _)
Insert(sorted, x) ==
    IF sorted = << >> THEN << x >>
    ELSE IF x < Head(sorted) THEN << x >> \o sorted
    ELSE << Head(sorted) >> \o Insert(Tail(sorted), x)

(* The sort left out: the timestamps stay in input order. *)
Sort_skipped(seq) == seq

RECURSIVE Sort(_)
Sort(seq) == IF seq = << >> THEN << >> ELSE Insert(Sort(Tail(seq)), Head(seq))

(* entries.iter().filter_map(|e| e.timestamp).collect() *)
Timestamps(entries) ==
    LET withTs == SelectSeq(entries, HasTimestamp)
    IN  [ i \in 1..Len(withTs) |-> withTs[i].timestamp ]

(* timestamps.windows(2) mapped to the interval in seconds *)
Intervals(ts) == [ i \in 1..(IF Len(ts) = 0 THEN 0 ELSE Len(ts) - 1) |-> ts[i + 1] - ts[i] ]

RECURSIVE SeqSum(_)
SeqSum(seq) == IF seq = << >> THEN 0 ELSE Head(seq) + SeqSum(Tail(seq))

SeqMin(seq) == CHOOSE m \in { seq[i] : i \in 1..Len(seq) } :
                  \A j \in 1..Len(seq) : m <= seq[j]

SeqMax(seq) == CHOOSE m \in { seq[i] : i \in 1..Len(seq) } :
                  \A j \in 1..Len(seq) : m >= seq[j]

----------------------------------------------------------------------------
(* tty-mood: FrequencySignals *)

(* commands_per_hour that is 0.0 also for a duration of exactly 0.1 hours. *)
commands_per_hour_le(entries) ==
    LET timestamps == Timestamps(entries)
    IN  IF Len(timestamps) < 2 THEN << 0, 1 >>
        ELSE LET span == SeqMax(timestamps) - SeqMin(timestamps)
             IN  IF span * 10 <= 3600 THEN << 0, 1 >>
                 ELSE << Len(timestamps) * 3600, span >>

(* Commands per hour as the ratio << num, den >>: len / (span / 3600). *)
commands_per_hour(entries) ==
    LET timestamps == Timestamps(entries)
    IN  IF Len(timestamps) < 2 THEN << 0, 1 >>
        ELSE LET span == SeqMax(timestamps) - SeqMin(timestamps)
             IN  \* duration_hours < 0.1
                 IF span * 10 < 3600 THEN << 0, 1 >>
                 ELSE << Len(timestamps) * 3600, span >>

(* detect_bursts that returns early only below two timestamps. *)
detect_bursts_from_two(entries) ==
    LET timestamps == Sort(Timestamps(entries))
    IN  IF Len(timestamps) < 2 THEN << 0, 1 >>
        ELSE LET intervals == Intervals(timestamps)
                 lt10(i) == i < 10
                 burst_count == Count(intervals, lt10)
                 total_intervals == Len(intervals)
             IN  IF total_intervals = 0 THEN << 0, 1 >>
                 ELSE << burst_count, total_intervals >>

(* burst_count / total_intervals as the ratio << num, den >> *)
detect_bursts(entries) ==
    LET timestamps == Sort(Timestamps(entries))
    IN  IF Len(timestamps) < 3 THEN << 0, 1 >>
        ELSE LET intervals == Intervals(timestamps)
                 lt10(i) == i < 10
                 burst_count == Count(intervals, lt10)
                 total_intervals == Len(intervals)
             IN  IF total_intervals = 0 THEN << 0, 1 >>
                 ELSE << burst_count, total_intervals >>

RECURSIVE Gcd(_, _)
Gcd(a, b) == IF b = 0 THEN a ELSE Gcd(b, a % b)

(* The least integer x with x >= SCORE_ONE^2 * q / p, for 0 < q < p, taken *)
(* in two divisions so that no intermediate product leaves the integers    *)
(* of the checker.                                                          *)
ScaledSquare(q, p) ==
    LET a == (SCORE_ONE * q) \div p
        r == (SCORE_ONE * q) % p
        b == (SCORE_ONE * r) \div p
        exact == (SCORE_ONE * r) % p = 0
    IN  SCORE_ONE * a + b + (IF exact THEN 0 ELSE 1)

RECURSIVE SqrtSearch(_, _, _)
SqrtSearch(x, lo, hi) ==
    IF lo >= hi THEN lo
    ELSE LET mid == (lo + hi) \div 2
         IN  IF mid * mid >= x THEN SqrtSearch(x, lo, mid)
             ELSE SqrtSearch(x, mid + 1, hi)

(* min(cv, 1) rounded up to a unit of 1/SCORE_ONE, for cv^2 = q / p: the   *)
(* least c in 0..SCORE_ONE with (c / SCORE_ONE)^2 >= q / p.                *)
CvSearch(q, p) ==
    IF q = 0 THEN 0
    ELSE IF q >= p THEN SCORE_ONE
    ELSE LET g == Gcd(q, p)
         IN  SqrtSearch(ScaledSquare(q \div g, p \div g), 0, SCORE_ONE)

(* rhythm_cv2 that returns early only below four timestamps. *)
rhythm_cv2_from_four(entries) ==
    LET timestamps == Sort(Timestamps(entries))
    IN  IF Len(timestamps) < 4 THEN << 1, 1 >>
        ELSE LET inRange(i) == i > 0 /\ i < 3600
                 intervals == SelectSeq(Intervals(timestamps), inRange)
                 k == Len(intervals)
             IN  IF k < 3 THEN << 1, 1 >>
                 ELSE LET s == SeqSum(intervals)
                          q == SeqSum([ j \in 1..k |->
                                  (k * intervals[j] - s) * (k * intervals[j] - s) ])
                      IN  << q, k * s * s >>

(* The square of the coefficient of variation as the ratio << q, p >>.     *)
(* With k intervals of sum s, cv^2 = variance / mean^2                      *)
(* = sum((k*i - s)^2) / (k * s^2).  The early returns of 0.0 are cv^2 = 1.  *)
rhythm_cv2(entries) ==
    LET timestamps == Sort(Timestamps(entries))
    IN  IF Len(timestamps) < 5 THEN << 1, 1 >>
        ELSE LET inRange(i) == i > 0 /\ i < 3600
                 intervals == SelectSeq(Intervals(timestamps), inRange)
                 k == Len(intervals)
             IN  IF k < 3 THEN << 1, 1 >>
                 ELSE LET s == SeqSum(intervals)
                          q == SeqSum([ j \in 1..k |->
                                  (k * intervals[j] - s) * (k * intervals[j] - s) ])
                      IN  << q, k * s * s >>

(* (1.0 - cv.min(1.0)).clamp(0.0, 1.0) in units of 1/SCORE_ONE *)
detect_steady_rhythm(entries) ==
    LET cv2 == rhythm_cv2(entries)
        cv == CvSearch(cv2[1], cv2[2])
    IN  f64_clamp(SCORE_ONE - f64_min(cv, SCORE_ONE), 0, SCORE_ONE)

(* format!("{:.1} commands/hour", cph): cph rounded to one decimal *)
CadenceNote(cph) ==
    LET tenths == (20 * cph[1] + cph[2]) \div (2 * cph[2])
    IN  << ToString(tenths \div 10) \o "." \o ToString(tenths % 10) \o " commands/hour" >>

FrequencySignals_analyze(entries) ==
    IF entries = << >> THEN SignalCollection_new
    ELSE
    LET cph == commands_per_hour(entries)
        high == IF cph[1] > 30 * cph[2]
                THEN << Signal_with_note(
                          Signal_new("cadence_high",
                              f64_clamp(ToScore(cph[1] - 30 * cph[2], 50 * cph[2]),
                                        0, SCORE_ONE)),
                          CadenceNote(cph)) >>
                ELSE << >>
        low == IF cph[1] < 5 * cph[2] /\ cph[1] > 0
               THEN << Signal_with_note(
                         Signal_new("cadence_low",
                             \* 1.0 - cph / 5.0
                             ToScore(5 * cph[2] - cph[1], 5 * cph[2])),
                         CadenceNote(cph)) >>
               ELSE << >>
        burst_score == detect_bursts(entries)
        burst == IF burst_score[1] * 10 > 3 * burst_score[2]
                 THEN << Signal_new("burst_pattern",
                                    ToScore(burst_score[1], burst_score[2])) >>
                 ELSE << >>
        \* rhythm_score > 0.5, that is cv < 0.5, that is cv^2 < 1/4
        cv2 == rhythm_cv2(entries)
        rhythm == IF 4 * cv2[1] < cv2[2]
                  THEN << Signal_new("steady_rhythm", detect_steady_rhythm(entries)) >>
                  ELSE << >>
    IN  high \o low \o burst \o rhythm

----------------------------------------------------------------------------
(* tty-mood: TemporalSignals *)

(* The histogram of the entries over the hours 0..23. *)
hour_counts(entries) ==
    [ h \in 0..23 |-> Cardinality({ i \in 1..Len(entries) : hour(entries[i]) = h }) ]

RECURSIVE PeakDesc(_, _, _)
PeakDesc(counts, max_count, h) ==
    IF h > 23 THEN << >>
    ELSE (IF counts[h] = max_count /\ counts[h] > 0
          THEN << (IF h < 10 THEN "0" ELSE "") \o ToString(h) \o ":00" >>
          ELSE << >>)
         \o PeakDesc(counts, max_count, h + 1)

(* analyze_hour_distribution with time_concentrated above 0.5. *)
analyze_hour_distribution_above_half(entries) ==
    LET counts == hour_counts(entries)
        total == Len(entries)
    IN  IF total = 0 THEN << >>
        ELSE
        LET max_count == CHOOSE m \in { counts[h] : h \in 0..23 } :
                            \A h \in 0..23 : counts[h] <= m
            peak_hours == PeakDesc(counts, max_count, 0)
            peak == IF peak_hours # << >> /\ max_count * 100 > 15 * total
                    THEN << Signal_with_note(
                              Signal_new("peak_hours", ToScore(max_count, total)),
                              << "Most active: {}" >> \o peak_hours) >>
                    ELSE << >>
            active_hours == Cardinality({ h \in 0..23 : counts[h] > 0 })
            \* concentration = 1 - active_hours / 24 = (24 - active_hours) / 24
            spread == IF (24 - active_hours) * 10 > 5 * 24
                      THEN << Signal_new("time_concentrated",
                                         ToScore(24 - active_hours, 24)) >>
                      ELSE IF (24 - active_hours) * 10 < 3 * 24
                      THEN << Signal_new("time_spread", ToScore(active_hours, 24)) >>
                      ELSE << >>
        IN  peak \o spread

analyze_hour_distribution(entries) ==
    LET counts == hour_counts(entries)
        total == Len(entries)
    IN  IF total = 0 THEN << >>
        ELSE
        LET max_count == CHOOSE m \in { counts[h] : h \in 0..23 } :
                            \A h \in 0..23 : counts[h] <= m
            peak_hours == PeakDesc(counts, max_count, 0)
            peak == IF peak_hours # << >> /\ max_count * 100 > 15 * total
                    THEN << Signal_with_note(
                              Signal_new("peak_hours", ToScore(max_count, total)),
                              << "Most active: {}" >> \o peak_hours) >>
                    ELSE << >>
            active_hours == Cardinality({ h \in 0..23 : counts[h] > 0 })
            \* concentration = 1 - active_hours / 24 = (24 - active_hours) / 24
            spread == IF (24 - active_hours) * 10 > 6 * 24
                      THEN << Signal_new("time_concentrated",
                                         ToScore(24 - active_hours, 24)) >>
                      ELSE IF (24 - active_hours) * 10 < 3 * 24
                      THEN << Signal_new("time_spread", ToScore(active_hours, 24)) >>
                      ELSE << >>
        IN  peak \o spread

TemporalSignals_analyze(entries) ==
    IF entries = << >> THEN SignalCollection_new
    ELSE
    LET with_timestamps == SelectSeq(entries, HasTimestamp)
        n == Len(with_timestamps)
    IN  IF n = 0 THEN SignalCollection_new
        ELSE
        LET late_night_count == Count(with_timestamps, is_late_night)
            late == IF late_night_count * 10 > n
                    THEN << Signal_with_note(
                              Signal_new("late_night_orbit",
                                  f64_min(ToScore(late_night_count, n), SCORE_ONE)),
                              << "{}% of commands after 22:00",
                                 ToString((late_night_count * 100) \div n) >>) >>
                    ELSE << >>
            early_count == Count(with_timestamps, is_early_morning)
            early == IF early_count * 10 > n
                     THEN << Signal_with_note(
                               Signal_new("early_morning_surge",
                                   f64_min(ToScore(early_count, n), SCORE_ONE)),
                               << "{}% of commands before 07:00",
                                  ToString((early_count * 100) \div n) >>) >>
                     ELSE << >>
            lunch_count == Count(with_timestamps, is_lunch_time)
            lunch == IF lunch_count * 100 < 2 * n /\ n > 20
                     THEN << Signal_new("lunch_void", 8 * (SCORE_ONE \div 10)) >>
                     ELSE << >>
            weekend_count == Count(with_timestamps, is_weekend)
            \* (weekend_ratio - 0.28) * 2.0 = (100 * count - 28 * n) * 2 / (100 * n)
            weekend == IF weekend_count * 10 > 4 * n
                       THEN << Signal_with_note(
                                 Signal_new("weekend_warrior",
                                     ToScore((100 * weekend_count - 28 * n) * 2, 100 * n)),
                                 << "Above-average weekend activity" >>) >>
                       ELSE IF weekend_count * 100 < 15 * n /\ n > 50
                       THEN << Signal_with_note(
                                 Signal_new("weekday_bound",
                                     ToScore((28 * n - 100 * weekend_count) * 2, 100 * n)),
                                 << "Below-average weekend activity" >>) >>
                       ELSE << >>
        IN  late \o early \o lunch \o weekend \o analyze_hour_distribution(with_timestamps)

----------------------------------------------------------------------------
(* tty-mood: ErrorSignals *)

(* Adjacent pairs entries.windows(2) that satisfy P, over all such pairs. *)
PairCount(entries, P(_, _)) ==
    Cardinality({ i \in 1..(Len(entries) - 1) : P(entries[i], entries[i + 1]) })

(* detect_repeats that divides by the number of entries. *)
detect_repeats_by_len(entries) ==
    IF Len(entries) < 2 THEN << 0, 1 >>
    ELSE LET same(a, b) == a.command = b.command
         IN  << PairCount(entries, same), Len(entries) >>

detect_repeats(entries) ==
    IF Len(entries) < 2 THEN << 0, 1 >>
    ELSE LET same(a, b) == a.command = b.command
         IN  << PairCount(entries, same), Len(entries) - 1 >>

abs_diff(a, b) == IF a >= b THEN a - b ELSE b - a

simple_distance(a, b) ==
    IF Len(a) # Len(b) THEN abs_diff(Len(a), Len(b))
    ELSE Cardinality({ i \in 1..Len(a) : a[i] # b[i] })

(* is_likely_correction for a distance of one only. *)
is_likely_correction_one_char(cmd1, cmd2) ==
    LET len_diff == abs_diff(Len(cmd1), Len(cmd2))
    IN  IF len_diff > 2 THEN FALSE
        ELSE LET distance == simple_distance(cmd1, cmd2)
             IN  distance > 0 /\ distance <= 1

is_likely_correction(cmd1, cmd2) ==
    LET len_diff == abs_diff(Len(cmd1), Len(cmd2))
    IN  IF len_diff > 2 THEN FALSE
        ELSE LET distance == simple_distance(cmd1, cmd2)
             IN  distance > 0 /\ distance <= 2

detect_corrections(entries) ==
    IF Len(entries) < 2 THEN << 0, 1 >>
    ELSE LET corr(a, b) == is_likely_correction(a.command, b.command)
         IN  << PairCount(entries, corr), Len(entries) - 1 >>

status_commands ==
    { Chars(w) : w \in { "ls", "git", "pwd", "cat", "head", "tail", "stat", "file" } }

(* detect_status_checks with the repetition bonus from five repetitions on. *)
detect_status_checks_bonus_from_five(entries) ==
    LET n == Len(entries)
        isStatus(e) == command_name(e) \in status_commands
        status_count == Count(entries, isStatus)
        counted == { command_name(entries[i]) : i \in { j \in 1..n : isStatus(entries[j]) } }
        countOf(c) == Cardinality({ i \in 1..n : command_name(entries[i]) = c })
        max_single == IF counted = { } THEN 0
                      ELSE CHOOSE m \in { countOf(c) : c \in counted } :
                              \A c \in counted : countOf(c) <= m
        num == IF max_single >= 5 THEN 2 * status_count + max_single ELSE 2 * status_count
    IN  IF num > 2 * n THEN << 1, 1 >> ELSE << num, 2 * n >>

(* (ratio + repetition_bonus).min(1.0) as the ratio << num, den >> *)
detect_status_checks(entries) ==
    LET n == Len(entries)
        isStatus(e) == command_name(e) \in status_commands
        status_count == Count(entries, isStatus)
        counted == { command_name(entries[i]) : i \in { j \in 1..n : isStatus(entries[j]) } }
        countOf(c) == Cardinality({ i \in 1..n : command_name(entries[i]) = c })
        max_single == IF counted = { } THEN 0
                      ELSE CHOOSE m \in { countOf(c) : c \in counted } :
                              \A c \in counted : countOf(c) <= m
        \* ratio + (max_single / n) * 0.5 = (2 * status_count + max_single) / (2 * n)
        num == IF max_single > 5 THEN 2 * status_count + max_single ELSE 2 * status_count
    IN  IF num > 2 * n THEN << 1, 1 >> ELSE << num, 2 * n >>

(* ErrorSignals::analyze with the medium typo tier tested by an if of its   *)
(* own instead of an else if.                                               *)
ErrorSignals_analyze_separate_ifs(entries) ==
    IF entries = << >> THEN SignalCollection_new
    ELSE
    LET n == Len(entries)
        typo_count == Count(entries, looks_like_typo)
        typo == IF typo_count * 10 > n
                THEN << Signal_with_note(
                          Signal_new("typo_rate_high",
                              f64_min(ToScore(typo_count * 5, n), SCORE_ONE)),
                          << "{}% possible typos", ToString((typo_count * 100) \div n) >>) >>
                ELSE << >>
        typo_medium == IF typo_count * 100 > 3 * n
                       THEN << Signal_new("typo_rate_medium", ToScore(typo_count * 10, n)) >>
                       ELSE IF n > 50
                       THEN << Signal_new("typo_rate_low", ToScore(n - typo_count * 10, n)) >>
                       ELSE << >>
        repeat_score == detect_repeats(entries)
        repeat == IF repeat_score[1] * 10 > 2 * repeat_score[2]
                  THEN << Signal_with_note(
                            Signal_new("repeat_commands",
                                       ToScore(repeat_score[1], repeat_score[2])),
                            << "Same commands executed multiple times" >>) >>
                  ELSE << >>
        correction_score == detect_corrections(entries)
        correction == IF correction_score[1] * 10 > correction_score[2]
                      THEN << Signal_new("correction_pattern",
                                  ToScore(correction_score[1], correction_score[2])) >>
                      ELSE << >>
        status_check_score == detect_status_checks(entries)
        status == IF status_check_score[1] * 10 > 3 * status_check_score[2]
                  THEN << Signal_with_note(
                            Signal_new("status_check_loop",
                                ToScore(status_check_score[1], status_check_score[2])),
                            << "Frequent status verification" >>) >>
                  ELSE << >>
    IN  typo \o typo_medium \o repeat \o correction \o status

ErrorSignals_analyze(entries) ==
    IF entries = << >> THEN SignalCollection_new
    ELSE
    LET n == Len(entries)
        typo_count == Count(entries, looks_like_typo)
        typo == IF typo_count * 10 > n
                THEN << Signal_with_note(
                          Signal_new("typo_rate_high",
                              f64_min(ToScore(typo_count * 5, n), SCORE_ONE)),
                          << "{}% possible typos", ToString((typo_count * 100) \div n) >>) >>
                ELSE IF typo_count * 100 > 3 * n
                THEN << Signal_new("typo_rate_medium", ToScore(typo_count * 10, n)) >>
                ELSE IF n > 50
                THEN << Signal_new("typo_rate_low", ToScore(n - typo_count * 10, n)) >>
                ELSE << >>
        repeat_score == detect_repeats(entries)
        repeat == IF repeat_score[1] * 10 > 2 * repeat_score[2]
                  THEN << Signal_with_note(
                            Signal_new("repeat_commands",
                                       ToScore(repeat_score[1], repeat_score[2])),
                            << "Same commands executed multiple times" >>) >>
                  ELSE << >>
        correction_score == detect_corrections(entries)
        correction == IF correction_score[1] * 10 > correction_score[2]
                      THEN << Signal_new("correction_pattern",
                                  ToScore(correction_score[1], correction_score[2])) >>
                      ELSE << >>
        status_check_score == detect_status_checks(entries)
        status == IF status_check_score[1] * 10 > 3 * status_check_score[2]
                  THEN << Signal_with_note(
                            Signal_new("status_check_loop",
                                ToScore(status_check_score[1], status_check_score[2])),
                            << "Frequent status verification" >>) >>
                  ELSE << >>
    IN  typo \o repeat \o correction \o status

----------------------------------------------------------------------------
(* tty-mood: DiversitySignals *)

NameCount(entries, c) ==
    Cardinality({ i \in 1..Len(entries) : command_name(entries[i]) = c })

Names(entries) == { command_name(entries[i]) : i \in 1..Len(entries) }

(* The commands that max_by_key can return from the iteration of the count *)
(* map: the hash map iterates in an unspecified order and max_by_key keeps *)
(* the last maximum of that order, so any command with the top count.      *)
TopCommands(entries) ==
    { c \in Names(entries) :
        \A d \in Names(entries) : NameCount(entries, d) <= NameCount(entries, c) }

(* The empty sequence stands for None; top is the element max_by_key kept. *)
detect_tool_fixation(entries, top) ==
    IF Names(entries) = { } THEN << >>
    ELSE IF NameCount(entries, top) * 10 > 4 * Len(entries)
    THEN << << top, << NameCount(entries, top), Len(entries) >> >> >>
    ELSE << >>

detect_context_switching(entries) ==
    LET isCd(e) == command_name(e) = Chars("cd")
        cd_count == Count(entries, isCd)
        n == Len(entries)
    IN  IF n < 10 THEN << 0, 1 >>
        ELSE IF cd_count * 5 > n THEN << 1, 1 >>
        ELSE << cd_count * 5, n >>

git_commands == { Chars(w) : w \in { "git", "gh", "hub", "tig", "lazygit" } }

editor_commands ==
    { Chars(w) : w \in { "vim", "nvim", "nano", "micro", "code", "emacs", "hx" } }

build_commands ==
    { Chars(w) : w \in { "cargo", "make", "npm", "yarn", "pnpm", "go", "rustc",
                         "gcc", "cmake" } }

system_commands ==
    { Chars(w) : w \in { "systemctl", "journalctl", "dmesg", "htop", "top", "ps",
                         "kill" } }

package_commands ==
    { Chars(w) : w \in { "pacman", "apt", "yay", "brew", "dnf", "pip", "cargo" } }

CategoryCount(entries, category) ==
    Cardinality({ i \in 1..Len(entries) : command_name(entries[i]) \in category })

(* A category signal emitted also when count / total is min / 100. *)
CategorySignal_ge(entries, id, category, min, scale) ==
    LET count == CategoryCount(entries, category)
        total == Len(entries)
    IN  IF count * 100 >= min * total
        THEN << Signal_new(id, f64_min(ToScore(count * scale, total), SCORE_ONE)) >>
        ELSE << >>

(* A category signal: emitted when count / total > min / 100, with score    *)
(* min(count / total * scale, 1).                                           *)
CategorySignal(entries, id, category, min, scale) ==
    LET count == CategoryCount(entries, category)
        total == Len(entries)
    IN  IF count * 100 > min * total
        THEN << Signal_new(id, f64_min(ToScore(count * scale, total), SCORE_ONE)) >>
        ELSE << >>

analyze_tool_categories(entries) ==
    LET git == CategorySignal(entries, "git_heavy", git_commands, 15, 3)
    IN  (IF git = << >> THEN << >>
         ELSE << Signal_with_note(git[1],
                    << "{} git operations",
                       ToString(CategoryCount(entries, git_commands)) >>) >>)
        \o CategorySignal(entries, "editor_focused", editor_commands, 10, 4)
        \o CategorySignal(entries, "build_cycle", build_commands, 10, 4)
        \o CategorySignal(entries, "system_admin", system_commands, 10, 4)
        \o CategorySignal(entries, "package_operations", package_commands, 10, 4)

DiversitySignals_analyze(entries, top) ==
    IF entries = << >> THEN SignalCollection_new
    ELSE
    LET n == Len(entries)
        unique == Cardinality(Names(entries))
        diversity == IF unique * 10 > 5 * n
                     THEN << Signal_with_note(
                               Signal_new("command_diversity_high", ToScore(unique, n)),
                               << "{} unique commands", ToString(unique) >>) >>
                     ELSE IF unique * 10 < 2 * n /\ n > 20
                     THEN << Signal_with_note(
                               Signal_new("command_diversity_low", ToScore(n - unique, n)),
                               << "Limited command variety" >>) >>
                     ELSE << >>
        fixation == detect_tool_fixation(entries, top)
        fixated == IF fixation # << >>
                   THEN << Signal_with_note(
                             Signal_new("tool_fixation",
                                        ToScore(fixation[1][2][1], fixation[1][2][2])),
                             << "Focused on: {}" >> \o fixation[1][1]) >>
                   ELSE << >>
        context_score == detect_context_switching(entries)
        context == IF context_score[1] * 10 > 3 * context_score[2]
                   THEN << Signal_new("context_switching",
                                      ToScore(context_score[1], context_score[2])) >>
                   ELSE << >>
    IN  diversity \o fixated \o context \o analyze_tool_categories(entries)

----------------------------------------------------------------------------
(* tty-mood: signals::analyze.  The result of each detector is kept beside *)
(* the merged collection.                                                  *)

analyze_parts(entries, top) ==
    IF entries = << >> THEN << >>
    ELSE << FrequencySignals_analyze(entries), TemporalSignals_analyze(entries),
            ErrorSignals_analyze(entries), DiversitySignals_analyze(entries, top) >>

RECURSIVE merge_all(_, _, _)
merge_all(sigs, parts, i) ==
    IF i > Len(parts) THEN sigs
    ELSE merge_all(SignalCollection_merge(sigs, parts[i]), parts, i + 1)

analyze(entries, top) == merge_all(SignalCollection_new, analyze_parts(entries, top), 1)

----------------------------------------------------------------------------
(* Inputs *)

SignalIds ==
    { "cadence_high", "cadence_low", "burst_pattern", "steady_rhythm",
      "late_night_orbit", "weekday_bound", "time_spread",
      "typo_rate_high", "typo_rate_medium", "typo_rate_low",
      "repeat_commands", "correction_pattern", "status_check_loop",
      "command_diversity_high", "command_diversity_low", "tool_fixation",
      "context_switching", "git_heavy", "build_cycle" }

(* Ids whose signal the detectors build with with_note. *)
NotedIds ==
    { "cadence_high", "cadence_low", "late_night_orbit", "weekday_bound",
      "typo_rate_high", "repeat_commands", "status_check_loop",
      "command_diversity_high", "command_diversity_low", "tool_fixation",
      "git_heavy" }

NoteOf(id) == << "note", id >>

(* The ids of SignalIds in the order in which signals::analyze puts their   *)
(* signals into the merged collection: frequency, temporal, error,         *)
(* diversity, and within a detector the order of its add calls.            *)
EmitOrder ==
    << "cadence_high", "cadence_low", "burst_pattern", "steady_rhythm",
       "time_spread", "late_night_orbit", "weekday_bound",
       "typo_rate_high", "typo_rate_medium", "typo_rate_low",
       "repeat_commands", "correction_pattern", "status_check_loop",
       "command_diversity_high", "command_diversity_low", "tool_fixation",
       "context_switching", "git_heavy", "build_cycle" >>

EmitIndex(id) == CHOOSE i \in 1..Len(EmitOrder) : EmitOrder[i] = id

(* Raw scores handed to Signal::new.  Every id takes the three values of   *)
(* BaseScores; an id takes in addition the values next to the thresholds    *)
(* its score is compared with, and two ids take out-of-range values.  The   *)
(* values are chosen so that, on every collection of at most MaxSignals     *)
(* signals and on the fixtures, the f64 evaluation of the program and the   *)
(* exact evaluation of the model select the same winner: no two candidate   *)
(* scores that are equal here are separated by rounding there.              *)
BaseScores == { 0, 600, 1000 }

ExtraScores(id) ==
    CASE id = "burst_pattern"      -> { 300, 900 }
      [] id = "typo_rate_high"     -> { 300 }
      [] id = "correction_pattern" -> { 200, 300 }
      [] id = "cadence_high"       -> { 500 }
      [] id = "status_check_loop"  -> { 500 }
      [] id = "git_heavy"          -> { 700 }
      [] id = "typo_rate_low"      -> { -500 }
      [] id = "weekday_bound"      -> { 1500 }
      [] OTHER                     -> { }

RawScores(id) == BaseScores \cup ExtraScores(id)

(* The pair lists of the unit tests of mood.rs, built by signals_with. *)
FeralFixture ==
    << << "cadence_high", 800 >>, << "command_diversity_high", 700 >>,
       << "late_night_orbit", 600 >> >>

ExhaustedFixture ==
    << << "cadence_low", 800 >>, << "typo_rate_high", 700 >>,
       << "repeat_commands", 500 >> >>

RecursiveDoubtFixture ==
    << << "status_check_loop", 800 >>, << "repeat_commands", 600 >>,
       << "git_heavy", 700 >> >>

TestFixtures == { FeralFixture, ExhaustedFixture, RecursiveDoubtFixture }

(* Two longer pair lists: the weighted sum of Exhausted, and that of        *)
(* RecursiveDoubt, is above 1 only with five, respectively four, signals.   *)
ExhaustedOverOne ==
    << << "typo_rate_high", 1000 >>, << "typo_rate_medium", 1000 >>,
       << "cadence_low", 1000 >>, << "repeat_commands", 1000 >>,
       << "late_night_orbit", 1000 >> >>

RecursiveDoubtOverOne ==
    << << "status_check_loop", 1000 >>, << "repeat_commands", 1000 >>,
       << "correction_pattern", 1000 >>, << "git_heavy", 1000 >> >>

LongInputs == { ExhaustedOverOne, RecursiveDoubtOverOne }

RECURSIVE signals_with_from(_, _, _)
signals_with_from(pairs, i, sigs) ==
    IF i > Len(pairs) THEN sigs
    ELSE signals_with_from(pairs, i + 1,
            SignalCollection_add(sigs, Signal_new(pairs[i][1], pairs[i][2])))

signals_with(pairs) == signals_with_from(pairs, 1, SignalCollection_new)

(* A pair list with an id listed twice. *)
DuplicateIdFixture == RecursiveDoubtFixture \o << << "git_heavy", 0 >> >>

(* Collections handed to merge: those of the unit tests of mood.rs, and one *)
(* with a duplicate id.                                                     *)
MergeInputs == { signals_with(pairs) : pairs \in TestFixtures \cup { DuplicateIdFixture } }

(* make_entries_with_interval of the unit tests of frequency.rs: count      *)
(* entries "cmd0", "cmd1", ... spaced interval_secs apart from the instant  *)
(* start, which the test takes from the clock.                              *)
make_entries_with_interval(start, count, interval_secs) ==
    [ k \in 1..count |->
        HistoryEntry_new(<< "c", "m", "d", ToString(k - 1) >>,
                         start + interval_secs * (k - 1)) ]

(* The instants of the clock: a Thursday and a Saturday, 00:00 UTC. *)
InputStarts == { 0, 172800 }

(* The (count, interval_secs) pairs of the generated lists. *)
InputIntervals ==
    { << 4, 1440 >>, << 5, 30 >>, << 5, 1440 >>, << 5, 7 >>, << 5, 4000 >> }

(* The entries of the unit tests of errors.rs and diversity.rs: one entry   *)
(* for each command of the list, without a timestamp.                       *)
entries_of(names) ==
    [ k \in 1..Len(names) |-> HistoryEntry_new(Chars(names[k]), NoTimestamp) ]

(* count times the same command *)
Rep(name, count) == [ k \in 1..count |-> name ]

(* The command lists of the unit tests of errors.rs and diversity.rs. *)
UnitTestLists ==
    { << "gti", "sl", "cta", "git", "ls", "cat" >>,
      << "ls", "ls", "ls", "cd", "ls", "ls" >>,
      << "git", "ls", "git", "ls", "git", "pwd", "git" >>,
      << "git", "ls", "cd", "cat", "vim", "cargo", "npm", "python" >>,
      << "git", "git", "git", "git", "git", "ls", "cd" >>,
      << "git", "git", "git", "ls", "git", "cd", "git" >> }

(* Lists at the thresholds of detect_status_checks: three and four status   *)
(* commands in ten, and five times the same one in twenty and six times in  *)
(* twenty-four.                                                             *)
StatusLists ==
    { Rep("ls", 3) \o Rep("vim", 7), Rep("ls", 4) \o Rep("vim", 6),
      Rep("ls", 5) \o Rep("vim", 15), Rep("ls", 6) \o Rep("vim", 18),
      Rep("cat", 2) \o Rep("pwd", 1) \o Rep("vim", 7) }

(* Lists at the thresholds of analyze_tool_categories: one command of a     *)
(* category in ten and in eight, two in ten, three in ten, and three git in *)
(* twenty.                                                                  *)
CategoryLists ==
    { Rep("top", 1) \o Rep("ls", 9), << "top", "ps" >> \o Rep("ls", 8),
      Rep("vim", 3) \o Rep("ls", 7), Rep("pip", 1) \o Rep("ls", 7),
      Rep("git", 2) \o Rep("ls", 8), Rep("git", 3) \o Rep("ls", 17) }

(* Lists at the thresholds of the typo rate: one typo in eight, ten, twenty *)
(* and fifty-one records, two in ten, three in a hundred, and no typo in    *)
(* fifty and in fifty-one.                                                  *)
TypoLists ==
    { Rep("gti", 1) \o Rep("ls", 7), Rep("gti", 1) \o Rep("ls", 9),
      Rep("gti", 1) \o Rep("ls", 19), Rep("gti", 1) \o Rep("ls", 50),
      Rep("gti", 2) \o Rep("ls", 8), Rep("gti", 3) \o Rep("ls", 97),
      Rep("ls", 50), Rep("ls", 51) }

(* Lists at the thresholds of detect_corrections and detect_repeats: one    *)
(* and two pairs in ten that differ by one in length, pairs of the same     *)
(* length that differ everywhere, pairs that differ by three in length, and *)
(* one, two and three identical pairs in ten and in five.                   *)
PairLists ==
    { Rep("ls", 10) \o << "git" >>, Rep("ls", 9) \o << "git", "ls" >>,
      << "vim", "cat", "vim", "cat" >>, << "ls", "cargo", "ls", "cargo" >>,
      << "ls", "ls", "vim", "cargo", "ls", "vim", "cargo", "ls", "vim", "cargo", "ls" >>,
      << "ls", "ls", "ls", "cargo", "ls", "vim", "cargo", "ls", "vim", "cargo", "ls" >>,
      << "ls", "ls", "ls", "ls", "cargo", "vim", "cargo", "ls", "vim", "cargo", "ls" >>,
      << "ls", "ls", "cargo", "ls", "cargo", "ls" >> }

CommandLists ==
    UnitTestLists \cup StatusLists \cup CategoryLists \cup TypoLists \cup PairLists

(* The (count, interval_secs) pairs of generated lists at the thresholds of *)
(* the cadence: a span of 0.1 hours and one below it, 30 and 5 commands per *)
(* hour, and 45 and 100 commands per hour.                                  *)
CadenceIntervals ==
    { << 5, 90 >>, << 5, 60 >>, << 5, 150 >>, << 5, 900 >>, << 5, 100 >>,
      << 10, 40 >> }

(* Generated lists with one entry in each of 9, 10, 16 and 17 hours of the  *)
(* day.                                                                     *)
HourIntervals == { << 9, 3600 >>, << 10, 3600 >>, << 16, 3600 >>, << 17, 3600 >> }

TimedIntervals == CadenceIntervals \cup HourIntervals

(* The lists of entries a test hands to a detector. *)
TestLists ==
    { entries_of(names) : names \in CommandLists }
    \cup { make_entries_with_interval(start, ci[1], ci[2]) :
              start \in InputStarts, ci \in TimedIntervals }

----------------------------------------------------------------------------
(* absurd-core: fs_safety, the atomic writer.  A file is a record: whether  *)
(* it exists, and its bytes.                                                *)

Missing == [ exists |-> FALSE, bytes |-> << >> ]

FileOf(bytes) == [ exists |-> TRUE, bytes |-> bytes ]

(* The two paths of a writer: target, and target.with_extension(            *)
(* "<ext>.tmp.<pid>") in the same directory.                                *)
TargetPath == "target"

temp_path == "temp"

(* File::create: creates the file or truncates it. *)
File_create(fs, path) == [ fs EXCEPT ![path] = FileOf(<< >>) ]

(* file.write_all: the bytes go to the end of the open file. *)
File_write_all(fs, path, bytes) == [ fs EXCEPT ![path] = FileOf(@.bytes \o bytes) ]

(* fs::rename: the destination is replaced in one step. *)
fs_rename(fs, from, to) == [ fs EXCEPT ![to] = fs[from], ![from] = Missing ]

(* fs::remove_file; the error on a missing file is ignored by the caller. *)
fs_remove_file(fs, path) == [ fs EXCEPT ![path] = Missing ]

(* A drop that leaves the temp file behind. *)
AtomicWriter_drop_leaves(fs) == fs

(* impl Drop for AtomicWriter *)
AtomicWriter_drop(fs) == fs_remove_file(fs, temp_path)

(* Bounds of the writer: the write_all calls on one writer and the writers  *)
(* created one after the other.                                             *)
MaxWrites == 2

MaxSessions == 2

(* The contents handed to write_all, and the content of the target and of a *)
(* stale temp file before the first writer.                                 *)
Chunks == { << "a" >>, << "b", "c" >> }

OldBytes == << "o" >>

StaleBytes == << "s" >>

(* No writer: the state of the writer variables in a run of the classifier. *)
WriterIdle ==
    /\ files = [ path \in { TargetPath, temp_path } |-> Missing ]
    /\ dir = TRUE
    /\ wstate = "none"
    /\ old = Missing
    /\ payload = << >>
    /\ writes = 0
    /\ sessions = 0

(* AtomicWriter::new: the parent directory is created when missing, then    *)
(* the temp file; either call can fail, and then there is no writer.        *)
AtomicWriter_new(outcome) ==
    /\ wstate \in { "none", "finished", "dropped" }
    /\ sessions < MaxSessions
    /\ sessions' = sessions + 1
    /\ \/ /\ outcome = "create_dir_failed"
          /\ ~dir
          /\ wstate' = "none"
          /\ UNCHANGED << files, dir, old, payload, writes >>
       \/ /\ outcome = "create_failed"
          /\ dir' = TRUE
          /\ wstate' = "none"
          /\ UNCHANGED << files, old, payload, writes >>
       \/ /\ outcome = "ok"
          /\ dir' = TRUE
          /\ files' = File_create(files, temp_path)
          /\ old' = files[TargetPath]
          /\ payload' = << >>
          /\ writes' = 0
          /\ wstate' = "open"
    /\ UNCHANGED cvars
    /\ UNCHANGED tvars

(* AtomicWriter::write_all: all of content reaches the temp file, or the    *)
(* call fails after the first k bytes of it.                                *)
AtomicWriter_write_all(content, k) ==
    /\ wstate = "open"
    /\ writes < MaxWrites
    /\ writes' = writes + 1
    /\ payload' = payload \o content
    /\ files' = File_write_all(files, temp_path, SubSeq(content, 1, k))
    /\ wstate' = IF k = Len(content) THEN "open" ELSE "failed"
    /\ UNCHANGED << dir, old, sessions >>
    /\ UNCHANGED cvars
    /\ UNCHANGED tvars

(* AtomicWriter::finish: sync_all, then rename; finish takes the writer by  *)
(* value, so the writer is dropped when it returns, whatever it returns.    *)
AtomicWriter_finish(outcome) ==
    /\ wstate = "open"
    /\ \/ /\ outcome \in { "sync_failed", "rename_failed" }
          /\ files' = AtomicWriter_drop(files)
          /\ wstate' = "dropped"
       \/ /\ outcome = "ok"
          /\ files' = AtomicWriter_drop(fs_rename(files, temp_path, TargetPath))
          /\ wstate' = "finished"
    /\ UNCHANGED << dir, old, payload, writes, sessions >>
    /\ UNCHANGED cvars
    /\ UNCHANGED tvars

(* The writer goes out of scope without finish: after an error of           *)
(* write_all as in write_atomic, or at any other point.                     *)
Drop ==
    /\ wstate \in { "open", "failed" }
    /\ files' = AtomicWriter_drop(files)
    /\ wstate' = "dropped"
    /\ UNCHANGED << dir, old, payload, writes, sessions >>
    /\ UNCHANGED cvars
    /\ UNCHANGED tvars

----------------------------------------------------------------------------
(* absurd-core: fs_safety, two write_atomic calls of one process on the     *)
(* same target.  Both derive the same temp path from the target and the     *)
(* process id.  A path names a file (0: no file); a file stays while a      *)
(* writer holds it open, also when no path names it any more.  The parent   *)
(* directory exists and no system call fails for a reason of its own.       *)

Callers == { 1, 2 }

NoFile == 0

(* The content of each call. *)
Contents == { << "a" >>, << "b", "c" >> }

(* File::create: open with create and truncate.  A missing path gets a new  *)
(* empty file, an existing one is emptied; the result is the file system    *)
(* and the file that was opened.                                            *)
open_create_truncate(fs, names, path) ==
    IF names[path] = NoFile
    THEN [ inodes |-> Append(fs, << >>),
           links |-> [ names EXCEPT ![path] = Len(fs) + 1 ],
           file |-> Len(fs) + 1 ]
    ELSE [ inodes |-> [ fs EXCEPT ![names[path]] = << >> ],
           links |-> names,
           file |-> names[path] ]

(* write of data by a writer that has written nothing yet: the bytes go to  *)
(* the start of the file and what the file holds beyond them stays.         *)
write_at_start(bytes, data) ==
    data \o SubSeq(bytes, Len(data) + 1, Len(bytes))

NotCalled == [ at |-> "new", file |-> NoFile, content |-> << >>, result |-> "none" ]

(* No write_atomic call: the state of these variables in the other runs. *)
TwoWritersIdle ==
    /\ inodes = << >>
    /\ links = [ path \in { TargetPath, temp_path } |-> NoFile ]
    /\ calls = [ t \in Callers |-> NotCalled ]

(* let mut writer = AtomicWriter::new(path)?  of call t *)
write_atomic_new(t) ==
    /\ calls[t].at = "new"
    /\ LET opened == open_create_truncate(inodes, links, temp_path)
       IN  /\ inodes' = opened.inodes
           /\ links' = opened.links
           /\ calls' = [ calls EXCEPT ![t].at = "write_str", ![t].file = opened.file ]
    /\ UNCHANGED cvars
    /\ UNCHANGED wvars

(* writer.write_str(content)?  of call t *)
write_atomic_write_str(t) ==
    /\ calls[t].at = "write_str"
    /\ inodes' = [ inodes EXCEPT ![calls[t].file] = write_at_start(@, calls[t].content) ]
    /\ calls' = [ calls EXCEPT ![t].at = "finish" ]
    /\ UNCHANGED links
    /\ UNCHANGED cvars
    /\ UNCHANGED wvars

(* writer.finish()?  of call t, up to the rename: sync_all, then            *)
(* fs::rename, which fails when the temp path names no file.                *)
write_atomic_finish(t) ==
    /\ calls[t].at = "finish"
    /\ IF links[temp_path] = NoFile
       THEN /\ calls' = [ calls EXCEPT ![t].at = "drop", ![t].result = "err" ]
            /\ UNCHANGED links
       ELSE /\ links' = [ links EXCEPT ![TargetPath] = links[temp_path],
                                       ![temp_path] = NoFile ]
            /\ calls' = [ calls EXCEPT ![t].at = "drop", ![t].result = "ok" ]
    /\ UNCHANGED inodes
    /\ UNCHANGED cvars
    /\ UNCHANGED wvars

(* The writer of call t is dropped when finish returns: remove_file of the  *)
(* temp path, its error ignored; then write_atomic returns.                 *)
write_atomic_drop(t) ==
    /\ calls[t].at = "drop"
    /\ links' = [ links EXCEPT ![temp_path] = NoFile ]
    /\ calls' = [ calls EXCEPT ![t].at = "returned" ]
    /\ UNCHANGED inodes
    /\ UNCHANGED cvars
    /\ UNCHANGED wvars

----------------------------------------------------------------------------
(* State machine *)

MoodUnset == [ id |-> "unset", confidence |-> 0, notes |-> << >> ]

(* The history history handed to the detectors. *)
InputCommands == { Chars("git"), Chars("gti"), Chars("ls") }

InputTimestamps == { NoTimestamp, 0, 5, 4000 }

Init ==
    /\ history = << >>
    /\ detected = << >>
    /\ signals = SignalCollection_new
    /\ scores = << >>
    /\ mood = MoodUnset
    /\ pc = "collect"
    /\ WriterIdle
    /\ TwoWritersIdle

(* signals.add(Signal::new(id, score)), with with_note where the detectors  *)
(* do.  The ids come in the order of EmitOrder, an id possibly again; the   *)
(* unit-test lists of SignalsWith and Merge hold other orders.              *)
Add(id, raw) ==
    /\ pc = "collect"
    /\ history = << >>
    /\ Len(signals) < MaxSignals
    /\ \A i \in 1..Len(signals) : EmitIndex(signals[i].id) <= EmitIndex(id)
    /\ signals' = SignalCollection_add(signals,
                    IF id \in NotedIds
                    THEN Signal_with_note(Signal_new(id, raw), NoteOf(id))
                    ELSE Signal_new(id, raw))
    /\ UNCHANGED << history, detected, scores, mood, pc >>
    /\ UNCHANGED wvars
    /\ UNCHANGED tvars

(* let signals = signals_with(&[...]) of a unit test *)
SignalsWith(pairs) ==
    /\ pc = "collect"
    /\ history = << >>
    /\ signals = SignalCollection_new
    /\ signals' = signals_with(pairs)
    /\ UNCHANGED << history, detected, scores, mood, pc >>
    /\ UNCHANGED wvars
    /\ UNCHANGED tvars

(* The history parser yields one more entry. *)
Push(command, timestamp) ==
    /\ pc = "collect"
    /\ signals = SignalCollection_new
    /\ Len(history) < MaxEntries
    /\ history' = Append(history, HistoryEntry_new(command, timestamp))
    /\ UNCHANGED << detected, signals, scores, mood, pc >>
    /\ UNCHANGED wvars
    /\ UNCHANGED tvars

(* The history parser yields count more entries, interval_secs apart, after *)
(* at most one entry.                                                       *)
MakeEntries(start, count, interval_secs) ==
    /\ pc = "collect"
    /\ signals = SignalCollection_new
    /\ Len(history) < 2
    /\ history' = history \o make_entries_with_interval(start, count, interval_secs)
    /\ UNCHANGED << detected, signals, scores, mood, pc >>
    /\ UNCHANGED wvars
    /\ UNCHANGED tvars

(* let entries = [...] of a unit test *)
TestEntries(entries) ==
    /\ pc = "collect"
    /\ signals = SignalCollection_new
    /\ history = << >>
    /\ history' = entries
    /\ UNCHANGED << detected, signals, scores, mood, pc >>
    /\ UNCHANGED wvars
    /\ UNCHANGED tvars

(* signals.merge(other) *)
Merge(other) ==
    /\ pc = "collect"
    /\ history = << >>
    /\ Len(signals) >= 1
    /\ Len(signals) < MaxSignals
    /\ signals' = SignalCollection_merge(signals, other)
    /\ UNCHANGED << history, detected, scores, mood, pc >>
    /\ UNCHANGED wvars
    /\ UNCHANGED tvars

(* signals::analyze on the history: the result of each detector is kept in *)
(* detected, and signals is their merge in the order of analyze, empty for *)
(* an empty history; top is the command the count map of                   *)
(* detect_tool_fixation yields.                                            *)
Analyze(top) ==
    /\ pc = "collect"
    /\ signals = SignalCollection_new
    /\ detected' = << FrequencySignals_analyze(history), TemporalSignals_analyze(history),
                   ErrorSignals_analyze(history), DiversitySignals_analyze(history, top) >>
    /\ signals' = IF history = << >> THEN SignalCollection_new
                  ELSE merge_all(SignalCollection_new, detected', 1)
    /\ pc' = "analyzed"
    /\ UNCHANGED << history, scores, mood >>
    /\ UNCHANGED wvars
    /\ UNCHANGED tvars

(* let mood = detect_mood(&signals) *)
DetectMood ==
    /\ \/ pc = "analyzed"
       \/ pc = "collect" /\ history = << >>
    /\ scores' = candidate_scores(signals)
    /\ mood' = detect_mood(signals)
    /\ pc' = "classified"
    /\ UNCHANGED << history, detected, signals >>
    /\ UNCHANGED wvars
    /\ UNCHANGED tvars

TopChoices == IF history = << >> THEN { << >> } ELSE TopCommands(history)

Next ==
    \/ \E id \in SignalIds : \E raw \in RawScores(id) : Add(id, raw)
    \/ \E pairs \in TestFixtures \cup LongInputs : SignalsWith(pairs)
    \/ \E command \in InputCommands, timestamp \in InputTimestamps :
          Push(command, timestamp)
    \/ \E start \in InputStarts, ci \in InputIntervals :
          MakeEntries(start, ci[1], ci[2])
    \/ \E entries \in TestLists : TestEntries(entries)
    \/ \E other \in MergeInputs : Merge(other)
    \/ \E top \in TopChoices : Analyze(top)
    \/ DetectMood

Spec == Init /\ [][Next]_vars

(* The two ways in which a collection comes to detect_mood, each alone: the *)
(* collection built by hand as in the unit tests of mood.rs, and the        *)
(* collection that signals::analyze builds from a history.  No behaviour of *)
(* Spec mixes them: Add, SignalsWith and Merge require an empty history,    *)
(* Push, MakeEntries and Analyze an empty collection.                       *)
NextSignals ==
    \/ \E id \in SignalIds : \E raw \in RawScores(id) : Add(id, raw)
    \/ \E pairs \in TestFixtures \cup LongInputs : SignalsWith(pairs)
    \/ \E other \in MergeInputs : Merge(other)
    \/ DetectMood

SpecSignals == Init /\ [][NextSignals]_vars

NextHistory ==
    \/ \E command \in InputCommands, timestamp \in InputTimestamps :
          Push(command, timestamp)
    \/ \E start \in InputStarts, ci \in InputIntervals :
          MakeEntries(start, ci[1], ci[2])
    \/ \E entries \in TestLists : TestEntries(entries)
    \/ \E top \in TopChoices : Analyze(top)
    \/ DetectMood

SpecHistory == Init /\ [][NextHistory]_vars

(* signals::analyze alone, as the unit tests of the detectors call it: the  *)
(* history is built and analysed, and no mood is detected.                  *)
NextAnalyze ==
    \/ \E command \in InputCommands, timestamp \in InputTimestamps :
          Push(command, timestamp)
    \/ \E start \in InputStarts, ci \in InputIntervals :
          MakeEntries(start, ci[1], ci[2])
    \/ \E entries \in TestLists : TestEntries(entries)
    \/ \E top \in TopChoices : Analyze(top)

SpecAnalyze == Init /\ [][NextAnalyze]_vars

(* The writer alone: the classifier stays in its initial state.  The target *)
(* exists or not, a temp file of an earlier run may be left, and the parent *)
(* directory may be missing when neither file exists.                       *)
InitWriter ==
    /\ history = << >>
    /\ detected = << >>
    /\ signals = SignalCollection_new
    /\ scores = << >>
    /\ mood = MoodUnset
    /\ pc = "collect"
    /\ dir \in BOOLEAN
    /\ \E t \in { Missing, FileOf(OldBytes) }, u \in { Missing, FileOf(StaleBytes) } :
          /\ (t.exists \/ u.exists) => dir
          /\ files = [ path \in { TargetPath, temp_path } |->
                          IF path = TargetPath THEN t ELSE u ]
    /\ wstate = "none"
    /\ old = Missing
    /\ payload = << >>
    /\ writes = 0
    /\ sessions = 0
    /\ TwoWritersIdle

NextWriter ==
    \/ \E outcome \in { "create_dir_failed", "create_failed", "ok" } :
          AtomicWriter_new(outcome)
    \/ \E content \in Chunks : \E k \in 0..Len(content) :
          AtomicWriter_write_all(content, k)
    \/ \E outcome \in { "sync_failed", "rename_failed", "ok" } :
          AtomicWriter_finish(outcome)
    \/ Drop

SpecWriter == InitWriter /\ [][NextWriter]_vars

(* Two write_atomic calls alone, under every interleaving of their steps.   *)
(* The target exists or not, a temp file of an earlier run may be left, and *)
(* each call has its content.                                               *)
InitTwoWriters ==
    /\ history = << >>
    /\ detected = << >>
    /\ signals = SignalCollection_new
    /\ scores = << >>
    /\ mood = MoodUnset
    /\ pc = "collect"
    /\ WriterIdle
    /\ \E t, u \in BOOLEAN :
          /\ inodes = (IF t THEN << OldBytes >> ELSE << >>)
                      \o (IF u THEN << StaleBytes >> ELSE << >>)
          /\ links = [ path \in { TargetPath, temp_path } |->
                         IF path = TargetPath
                         THEN (IF t THEN 1 ELSE NoFile)
                         ELSE (IF u THEN Len(inodes) ELSE NoFile) ]
    /\ \E c \in [ Callers -> Contents ] :
          calls = [ t \in Callers |-> [ NotCalled EXCEPT !.content = c[t] ] ]

NextTwoWriters ==
    \/ \E t \in Callers : write_atomic_new(t)
    \/ \E t \in Callers : write_atomic_write_str(t)
    \/ \E t \in Callers : write_atomic_finish(t)
    \/ \E t \in Callers : write_atomic_drop(t)

SpecTwoWriters == InitTwoWriters /\ [][NextTwoWriters]_vars

TypeOK ==
    /\ pc \in { "collect", "analyzed", "classified" }
    /\ \A i \in 1..Len(signals) : signals[i].score \in 0..SCORE_ONE
    /\ mood.id \in MoodId \cup { "unset" }

----------------------------------------------------------------------------
(* Properties of detect_mood *)

Classified == pc = "classified"

ScoreOf(id) == scores[CHOOSE i \in 1..Len(scores) : scores[i][1] = id][2]

MaxScore == CHOOSE m \in { scores[i][2] : i \in 1..Len(scores) } :
                \A j \in 1..Len(scores) : scores[j][2] <= m

(* Positions of the candidates that hold the maximum score. *)
TiedAtMax == { i \in 1..Len(scores) : scores[i][2] = MaxScore }

(* C1: for every collection the Mood returned by detect_mood has its        *)
(* confidence in [0,1] and its id among the nine MoodId values, also when   *)
(* a candidate's weighted score is above 1.                                 *)
C1_ConfidenceAndIdInRange ==
    Classified =>
        /\ mood.confidence >= 0
        /\ mood.confidence <= CONF_ONE
        /\ mood.id \in MoodId

C1_Witness ==
    /\ Classified
    /\ signals = signals_with(ExhaustedOverOne)
    /\ ScoreOf("Exhausted") > CONF_ONE
    /\ mood.id = "Exhausted"
    /\ mood.confidence = CONF_ONE

(* C2: detect_mood returns Neutral exactly when the maximum candidate score *)
(* is strictly below 0.3; otherwise the id is a maximum-scoring candidate   *)
(* and the confidence is that score clamped to at most 1.  A non-Neutral    *)
(* result has confidence >= 0.3 and a Neutral one has confidence 0.         *)
C2_NeutralIffBelowThreshold ==
    Classified =>
        /\ (mood.id = "Neutral") <=> (MaxScore < 30 * SCORE_ONE)
        /\ mood.id # "Neutral" =>
              /\ \E i \in TiedAtMax : scores[i][1] = mood.id
              /\ mood.confidence = f64_min(MaxScore, CONF_ONE)
              /\ mood.confidence >= 30 * SCORE_ONE
        /\ mood.id = "Neutral" => mood.confidence = 0

C2_Witness ==
    /\ Classified
    /\ MaxScore = 30 * SCORE_ONE
    /\ mood.id # "Neutral"
    /\ mood.confidence = 30 * SCORE_ONE

(* C4 as stated: for {cadence_low:0.8, typo_rate_high:0.7,                  *)
(* repeat_commands:0.5} the confidence returned by detect_mood is 0.53.     *)
C4_ConfidenceIs053 ==
    (Classified /\ signals = signals_with(ExhaustedFixture)) =>
        mood.confidence = 53 * SCORE_ONE

(* C4 amended: for that collection the confidence is                        *)
(* 0.3*0.8 + 0.3*(0.8*0.7) + 0.2*0.5 + 0.2*0, which is 0.508.               *)
C4_ConfidenceIs0508 ==
    (Classified /\ signals = signals_with(ExhaustedFixture)) =>
        /\ mood.confidence = 30 * 800 + 3 * (8 * 700) + 20 * 500 + 20 * 0
        /\ mood.confidence = 50800

C4_Witness ==
    /\ Classified
    /\ signals = signals_with(ExhaustedFixture)
    /\ mood.confidence > 0

(* C5: for {cadence_low:0.8, typo_rate_high:0.7, repeat_commands:0.5}       *)
(* detect_mood returns Exhausted; the Exhausted score is >= 0.3 and         *)
(* strictly above the other seven scores, FeralProductivity is floored to   *)
(* 0 and EmergencyMode is gated to 0.                                       *)
C5_ExhaustedWins ==
    (Classified /\ signals = signals_with(ExhaustedFixture)) =>
        /\ mood.id = "Exhausted"
        /\ ScoreOf("Exhausted") >= 30 * SCORE_ONE
        /\ \A i \in 1..Len(scores) :
              scores[i][1] # "Exhausted" => scores[i][2] < ScoreOf("Exhausted")
        /\ ScoreOf("FeralProductivity") = 0
        /\ ScoreOf("EmergencyMode") = 0

C5_Witness ==
    /\ Classified
    /\ signals = signals_with(ExhaustedFixture)
    /\ mood.id = "Exhausted"
    /\ ScoreOf("AmbientDrift") > 0

----------------------------------------------------------------------------
(* The table of per-mood formulas of the specification, written as weights  *)
(* in hundredths over S(id); a missing id has weight 0.                     *)

FormulaWeights(m) ==
    CASE m = "FeralProductivity" ->
            [ cadence_high |-> 35, command_diversity_high |-> 25,
              late_night_orbit |-> 20, burst_pattern |-> 20,
              typo_rate_high |-> -30 ]
      [] m = "Exhausted" ->
            [ cadence_low |-> 30, typo_rate_high |-> 24, typo_rate_medium |-> 12,
              repeat_commands |-> 20, late_night_orbit |-> 20 ]
      [] m = "Methodical" ->
            [ steady_rhythm |-> 40, typo_rate_low |-> 20, build_cycle |-> 10,
              git_heavy |-> 10, burst_pattern |-> -20, context_switching |-> -20 ]
      [] m = "ChaoticNeutral" ->
            [ command_diversity_high |-> 30, burst_pattern |-> 25,
              context_switching |-> 25, time_spread |-> 20, steady_rhythm |-> -30 ]
      [] m = "BureaucraticZen" ->
            [ steady_rhythm |-> 30, git_heavy |-> 30, typo_rate_low |-> 20,
              weekday_bound |-> 20, late_night_orbit |-> -20 ]
      [] m = "AmbientDrift" ->
            [ command_diversity_low |-> 35, cadence_low |-> 35,
              status_check_loop |-> 30 ]
      [] m = "RecursiveDoubt" ->
            [ status_check_loop |-> 35, repeat_commands |-> 25,
              correction_pattern |-> 20, git_heavy |-> 10 ]
      [] m = "EmergencyMode" ->
            [ burst_pattern |-> 30, typo_rate_high |-> 30,
              correction_pattern |-> 20, cadence_high |-> 20 ]

WeightOf(m, id) ==
    IF id \in DOMAIN FormulaWeights(m) THEN FormulaWeights(m)[id] ELSE 0

RECURSIVE SumOver(_, _, _)
SumOver(ids, m, sigs) ==
    IF ids = { } THEN 0
    ELSE LET id == CHOOSE x \in ids : TRUE
         IN  WeightOf(m, id) * SignalCollection_score(sigs, id)
             + SumOver(ids \ { id }, m, sigs)

WeightedSum(m, sigs) == SumOver(DOMAIN FormulaWeights(m), m, sigs)

(* Number of the four EmergencyMode conditions that hold. *)
GateCount(sigs) ==
    LET S(id) == SignalCollection_score(sigs, id)
    IN  (IF S("burst_pattern") > 300 THEN 1 ELSE 0)
        + (IF S("typo_rate_high") > 300 THEN 1 ELSE 0)
        + (IF S("correction_pattern") > 200 THEN 1 ELSE 0)
        + (IF S("cadence_high") > 500 THEN 1 ELSE 0)

BonusHolds(sigs) ==
    /\ SignalCollection_score(sigs, "status_check_loop") > 500
    /\ SignalCollection_score(sigs, "git_heavy") > 500

FormulaScore(m, sigs) ==
    LET sum == WeightedSum(m, sigs)
    IN  CASE m \in { "FeralProductivity", "Methodical", "ChaoticNeutral",
                     "BureaucraticZen" } -> IF sum < 0 THEN 0 ELSE sum
          [] m \in { "Exhausted", "AmbientDrift" } -> sum
          [] m = "RecursiveDoubt" ->
                LET t == sum + (IF BonusHolds(sigs) THEN 20000 ELSE 0)
                IN  IF t > CONF_ONE THEN CONF_ONE ELSE t
          [] m = "EmergencyMode" -> IF GateCount(sigs) >= 2 THEN sum ELSE 0

(* C6: each of the eight candidate scores equals the formula of the         *)
(* specification over S(id), is never negative, and RecursiveDoubt is never *)
(* above 1; {cadence_high:0.8, command_diversity_high:0.7,                  *)
(* late_night_orbit:0.6} yields FeralProductivity with confidence > 0.5.    *)
C6_ScoresFollowFormulas ==
    Classified =>
        /\ Len(scores) = 8
        /\ \A i \in 1..Len(scores) :
              /\ scores[i][1] = MoodAll[i]
              /\ scores[i][2] = FormulaScore(MoodAll[i], signals)
              /\ scores[i][2] >= 0
        /\ ScoreOf("RecursiveDoubt") <= CONF_ONE
        /\ signals = signals_with(FeralFixture) =>
              /\ mood.id = "FeralProductivity"
              /\ mood.confidence > 50 * SCORE_ONE

C6_Witness ==
    /\ Classified
    /\ signals = signals_with(FeralFixture)
    /\ mood.id = "FeralProductivity"
    /\ mood.confidence = 57500

(* C7: the EmergencyMode score is 0 whenever fewer than two of              *)
(* burst_pattern > 0.3, typo_rate_high > 0.3, correction_pattern > 0.2,     *)
(* cadence_high > 0.5 hold, whatever the weighted sum, and detect_mood then *)
(* does not return EmergencyMode; burst_pattern:0.9 alone gives score 0.    *)
C7_EmergencyGate ==
    (Classified /\ GateCount(signals) < 2) =>
        /\ ScoreOf("EmergencyMode") = 0
        /\ mood.id # "EmergencyMode"

C7_Witness ==
    /\ Classified
    /\ Len(signals) = 1
    /\ signals[1].id = "burst_pattern"
    /\ signals[1].score = 900
    /\ WeightedSum("EmergencyMode", signals) = 27000
    /\ ScoreOf("EmergencyMode") = 0

(* C8: the RecursiveDoubt score includes the fixed 0.2 bonus exactly when   *)
(* status_check_loop > 0.5 and git_heavy > 0.5, both strict, and the total  *)
(* is capped at 1; {status_check_loop:0.8, repeat_commands:0.6,             *)
(* git_heavy:0.7} is classified RecursiveDoubt with the bonus in its        *)
(* confidence.                                                              *)
C8_RecursiveDoubtBonus ==
    Classified =>
        LET S(id) == SignalCollection_score(signals, id)
            linear == 35 * S("status_check_loop") + 25 * S("repeat_commands")
                      + 20 * S("correction_pattern") + 10 * S("git_heavy")
            both == S("status_check_loop") > 500 /\ S("git_heavy") > 500
        IN  /\ both => ScoreOf("RecursiveDoubt") = f64_min(linear + 20000, CONF_ONE)
            /\ ~both => ScoreOf("RecursiveDoubt") = f64_min(linear, CONF_ONE)
            /\ signals = signals_with(RecursiveDoubtFixture) =>
                  /\ mood.id = "RecursiveDoubt"
                  /\ mood.confidence = linear + 20000

C8_Witness ==
    /\ Classified
    /\ signals = signals_with(RecursiveDoubtFixture)
    /\ mood.id = "RecursiveDoubt"
    /\ mood.confidence = 70000

(* The collection with the score at position i replaced by s. *)
WithScore(sigs, i, s) == [ sigs EXCEPT ![i].score = s ]

(* C9: for each candidate and each signal with a positive weight in its     *)
(* formula, raising that signal's score with all others fixed never lowers  *)
(* the candidate's score.                                                   *)
C9_Monotone ==
    Classified =>
        \A i \in 1..Len(signals) :
            \A s \in { r \in RawScores(signals[i].id) :
                         r > signals[i].score /\ r <= SCORE_ONE } :
                LET raised == candidate_scores(WithScore(signals, i, s))
                IN  \A k \in 1..Len(scores) :
                        WeightOf(scores[k][1], signals[i].id) > 0 =>
                            raised[k][2] >= scores[k][2]

(* A raise that opens the EmergencyMode gate. *)
C9_Witness ==
    /\ Classified
    /\ ScoreOf("EmergencyMode") = 0
    /\ \E i \in 1..Len(signals) :
          /\ signals[i].id = "burst_pattern"
          /\ signals[i].score = 300
          /\ score_emergency_mode(WithScore(signals, i, 900)) > 0

(* C10 as stated: when several candidates share the maximum score and it is *)
(* >= 0.3, the first of them in the enumeration order wins.                 *)
C10_FirstTiedWins ==
    (Classified /\ Cardinality(TiedAtMax) >= 2 /\ MaxScore >= 30 * SCORE_ONE) =>
        mood.id = MoodAll[CHOOSE i \in TiedAtMax : \A j \in TiedAtMax : i <= j]

(* C10 amended: when several candidates share the maximum score and it is   *)
(* >= 0.3, the last of them in the enumeration order FeralProductivity,     *)
(* Exhausted, Methodical, ChaoticNeutral, BureaucraticZen, AmbientDrift,    *)
(* RecursiveDoubt, EmergencyMode wins.                                      *)
C10_LastTiedWins ==
    (Classified /\ Cardinality(TiedAtMax) >= 2 /\ MaxScore >= 30 * SCORE_ONE) =>
        mood.id = MoodAll[CHOOSE i \in TiedAtMax : \A j \in TiedAtMax : i >= j]

C10_Witness ==
    /\ Classified
    /\ Cardinality(TiedAtMax) >= 2
    /\ MaxScore >= 30 * SCORE_ONE
    /\ mood.id = "EmergencyMode"
    /\ ScoreOf("FeralProductivity") = MaxScore

----------------------------------------------------------------------------
(* Properties of the analysis of an empty list *)

Analyzed == Len(detected) = 4

(* C3: for an empty record list every detector and signals::analyze return *)
(* an empty collection, and detect_mood on it returns Neutral with         *)
(* confidence 0.0 and the insufficient-signal-strength note.               *)
C3_EmptyListIsNeutral ==
    (Analyzed /\ history = << >>) =>
        /\ \A k \in 1..4 : detected[k] = SignalCollection_new
        /\ signals = SignalCollection_new
        /\ Classified =>
              /\ mood.id = "Neutral"
              /\ mood.confidence = 0
              /\ \E i \in 1..Len(mood.notes) : mood.notes[i] = InsufficientNote

C3_Witness ==
    /\ Analyzed
    /\ history = << >>
    /\ Classified
    /\ mood.id = "Neutral"

----------------------------------------------------------------------------
(* Properties of the notes of the result *)

(* The notes of the signals with score >= 0.7 that carry one, in collection *)
(* order.                                                                   *)
StrongNotes(sigs) ==
    LET noted(x) == x.score >= 700 /\ x.note # NoNote
        kept == SelectSeq(sigs, noted)
    IN  [ i \in 1..Len(kept) |-> kept[i].note ]

(* C11: a non-Neutral result carries exactly the notes of all signals with  *)
(* score >= 0.7 that have a note, in collection order, duplicates kept and  *)
(* signals outside the winning formula included; a Neutral result carries   *)
(* exactly the fixed insufficient-signal-strength note.                     *)
C11_NotesAreStrongNotes ==
    Classified =>
        IF mood.id = "Neutral"
        THEN mood.notes = << InsufficientNote >>
        ELSE mood.notes = StrongNotes(signals)

(* A strong noted signal outside the winning formula, beside one at exactly *)
(* 0.7 inside it.                                                           *)
C11_Witness ==
    /\ Classified
    /\ mood.id = "BureaucraticZen"
    /\ Len(signals) = 2
    /\ signals[1].id = "tool_fixation"
    /\ signals[1].score = 1000
    /\ signals[2].id = "git_heavy"
    /\ signals[2].score = 1000
    /\ mood.notes = << NoteOf("tool_fixation"), NoteOf("git_heavy") >>

----------------------------------------------------------------------------
(* Properties of merge and score *)

(* The score of the first signal of sigs with this id, scanning from the    *)
(* head; 0 when no signal has the id.                                       *)
RECURSIVE FirstScoreOf(_, _)
FirstScoreOf(sigs, id) ==
    IF sigs = << >> THEN 0
    ELSE IF Head(sigs).id = id THEN Head(sigs).score
    ELSE FirstScoreOf(Tail(sigs), id)

IdsOf(sigs) == { sigs[i].id : i \in 1..Len(sigs) }

(* The two operands of a merge whose result is the collection of the state: *)
(* the first k signals and the rest.                                        *)
Receiver(k) == SubSeq(signals, 1, k)

Merged(k) == SubSeq(signals, k + 1, Len(signals))

(* Every id present in both operands has the same score in each. *)
AgreeOnShared(a, b) ==
    \A id \in IdsOf(a) \cap IdsOf(b) : FirstScoreOf(a, id) = FirstScoreOf(b, id)

SameSelection(m1, m2) == m1.id = m2.id /\ m1.confidence = m2.confidence

(* C13 as stated: for any two collections A and B, duplicate ids allowed,   *)
(* detect_mood on A merged with B and on B merged with A return the same id *)
(* and the same confidence.                                                 *)
C13_MergeOrderIrrelevant ==
    Classified =>
        \A k \in 0..Len(signals) :
            SignalCollection_merge(Receiver(k), Merged(k)) = signals =>
                SameSelection(mood,
                    detect_mood(SignalCollection_merge(Merged(k), Receiver(k))))

(* C13 amended: for any two collections A and B in which every id present   *)
(* in both has the same score in A as in B, detect_mood on A merged with B  *)
(* and on B merged with A return the same id and the same confidence.       *)
C13_MergeOrderIrrelevantOnAgreement ==
    Classified =>
        \A k \in 0..Len(signals) :
            (/\ SignalCollection_merge(Receiver(k), Merged(k)) = signals
             /\ AgreeOnShared(Receiver(k), Merged(k))) =>
                SameSelection(mood,
                    detect_mood(SignalCollection_merge(Merged(k), Receiver(k))))

(* A merge of a one-signal receiver with a test collection that shares an   *)
(* id at the same score, classified as a mood.                              *)
C13_Witness ==
    /\ Classified
    /\ mood.id # "Neutral"
    /\ Merged(1) \in MergeInputs
    /\ IdsOf(Receiver(1)) \cap IdsOf(Merged(1)) # { }
    /\ AgreeOnShared(Receiver(1), Merged(1))
    /\ SignalCollection_merge(Merged(1), Receiver(1)) # signals

----------------------------------------------------------------------------
(* Properties of the detectors *)

(* The value (weekend_ratio - 0.28) * 2.0 that TemporalSignals::analyze     *)
(* hands to Signal::new, in units of 1/SCORE_ONE.                           *)
WeekendRaw(entries) ==
    LET stamped == SelectSeq(entries, HasTimestamp)
        n == Len(stamped)
        weekend_count == Cardinality({ i \in 1..n : weekday(stamped[i]) \in { 6, 7 } })
    IN  IF n = 0 THEN 0 ELSE ((100 * weekend_count - 28 * n) * 2 * 1000) \div (100 * n)

(* C14: Signal::new clamps the score into [0,1] (1.5 becomes 1.0, -0.5      *)
(* becomes 0.0), and every signal of every detector and of signals::analyze *)
(* has 0 <= score <= 1, also where the raw value is above 1 as for          *)
(* weekend_warrior.                                                         *)
C14_ScoresClamped ==
    /\ Signal_new("test", 1500).score = 1000
    /\ Signal_new("test", -500).score = 0
    /\ \A i \in 1..Len(signals) : signals[i].score >= 0 /\ signals[i].score <= 1000
    /\ \A k \in 1..Len(detected) :
          \A i \in 1..Len(detected[k]) :
              detected[k][i].score >= 0 /\ detected[k][i].score <= 1000

(* A history on a Saturday: the raw weekend_warrior value is 1.44. *)
C14_Witness ==
    /\ Analyzed
    /\ WeekendRaw(history) > 1000
    /\ \E i \in 1..Len(signals) :
          signals[i].id = "weekend_warrior" /\ signals[i].score = 1000

(* A step of merge on a collection built by hand: the only step that adds   *)
(* three or more signals to a collection that is not empty.                 *)
MergeStep ==
    /\ pc = "collect"
    /\ history = << >>
    /\ signals # << >>
    /\ Len(signals') >= Len(signals) + 3

(* C15: score(id) is the score of the first signal in collection order with *)
(* that id, and 0.0 when there is none; merge appends the signals of the    *)
(* other collection after the existing ones, neither reordered nor          *)
(* deduplicated, so an id present in both resolves to the receiver's        *)
(* earlier signal.                                                          *)
C15_FirstMatchAndAppend ==
    /\ [](\A id \in SignalIds \cup { "missing" } :
            /\ SignalCollection_score(signals, id) = FirstScoreOf(signals, id)
            /\ id \notin IdsOf(signals) => SignalCollection_score(signals, id) = 0)
    /\ [][MergeStep =>
            LET n == Len(signals)
                appended == SubSeq(signals', n + 1, Len(signals'))
            IN  /\ SubSeq(signals', 1, n) = signals
                /\ appended \in MergeInputs
                /\ \A id \in IdsOf(signals) :
                      SignalCollection_score(signals', id)
                          = SignalCollection_score(signals, id)
                /\ \A id \in IdsOf(appended) \ IdsOf(signals) :
                      SignalCollection_score(signals', id)
                          = SignalCollection_score(appended, id)]_vars

(* After a merge, git_heavy is in both operands, 1.0 in the receiver and    *)
(* 0.7 then 0.0 in the other; the receiver's is returned.                   *)
C15_Witness ==
    /\ pc = "collect"
    /\ Len(signals) = 5
    /\ signals[1].id = "git_heavy"
    /\ signals[1].score = 1000
    /\ Merged(1) = signals_with(DuplicateIdFixture)
    /\ SignalCollection_score(Merged(1), "git_heavy") = 700
    /\ SignalCollection_score(signals, "git_heavy") = 1000
    /\ SignalCollection_score(signals, "missing") = 0

(* No entry of the history carries a timestamp. *)
NoTimestamps ==
    /\ history # << >>
    /\ \A i \in 1..Len(history) : history[i].timestamp = NoTimestamp

(* The same commands, each with the timestamp ts. *)
Stamped(entries, ts) == [ i \in 1..Len(entries) |-> [ entries[i] EXCEPT !.timestamp = ts ] ]

(* C16: when no record carries a timestamp, FrequencySignals::analyze and   *)
(* TemporalSignals::analyze return empty collections, while the error and   *)
(* diversity detectors return what they return for the same commands with   *)
(* timestamps.                                                              *)
C16_NoTimestampsDisablesTimeSignals ==
    (Analyzed /\ NoTimestamps) =>
        /\ detected[1] = SignalCollection_new
        /\ detected[2] = SignalCollection_new
        /\ detected[3] = ErrorSignals_analyze(Stamped(history, 4000))
        /\ \E top \in TopCommands(history) :
              detected[4] = DiversitySignals_analyze(Stamped(history, 4000), top)
        /\ signals = detected[3] \o detected[4]

C16_Witness ==
    /\ Analyzed
    /\ NoTimestamps
    /\ Len(history) = 3
    /\ detected[3] # SignalCollection_new
    /\ detected[4] # SignalCollection_new
    /\ FrequencySignals_analyze(Stamped(history, 4000)) # SignalCollection_new

(* The permutations of 1..n. *)
PermutationsOf(n) ==
    { p \in [ 1..n -> 1..n ] : \A i, j \in 1..n : p[i] = p[j] => i = j }

(* The exchanges of two positions of 1..n, and the reversal. *)
Exchanges(n) ==
    { [ i \in 1..n |-> IF i = ab[1] THEN ab[2] ELSE IF i = ab[2] THEN ab[1] ELSE i ] :
        ab \in { xy \in (1..n) \X (1..n) : xy[1] < xy[2] } }
    \cup { [ i \in 1..n |-> n + 1 - i ] }

(* The permutations of the lists of up to three entries. *)
ShortPermutations == [ n \in 0..3 |-> PermutationsOf(n) ]

(* The rearrangements taken of a list of n entries: all n! permutations up  *)
(* to three entries, and for a longer list the exchanges of two entries and *)
(* the reversal.  Every permutation is a product of exchanges, and the      *)
(* lists built entry by entry are reached in every order, so that agreement *)
(* under each exchange on each of them is agreement under every             *)
(* permutation.                                                             *)
Rearrangements(n) == IF n <= 3 THEN ShortPermutations[n] ELSE Exchanges(n)

Permuted(entries, p) == [ i \in 1..Len(entries) |-> entries[p[i]] ]

(* C17: FrequencySignals::analyze and TemporalSignals::analyze return the   *)
(* same signals, with the same ids, scores and notes in the same order, for *)
(* a record list and for every permutation of it.                           *)
C17_TimeDetectorsIgnoreOrder ==
    (pc = "analyzed") =>
        \A p \in Rearrangements(Len(history)) :
            /\ FrequencySignals_analyze(Permuted(history, p)) = detected[1]
            /\ TemporalSignals_analyze(Permuted(history, p)) = detected[2]

(* A history out of time order with a burst and a steady rhythm. *)
C17_Witness ==
    /\ pc = "analyzed"
    /\ Len(history) >= 5
    /\ Timestamps(history) # Sort(Timestamps(history))
    /\ \E i \in 1..Len(detected[1]) : detected[1][i].id = "steady_rhythm"
    /\ \E i \in 1..Len(detected[1]) : detected[1][i].id = "burst_pattern"
    /\ detected[2] # SignalCollection_new

----------------------------------------------------------------------------
(* Properties of the frequency detector *)

(* The timestamps of the history in ascending order, and the gaps between   *)
(* adjacent ones.                                                           *)
SortedStamps == Sort(Timestamps(history))

Gaps == Intervals(SortedStamps)

ShortGaps == Cardinality({ i \in 1..Len(Gaps) : Gaps[i] < 10 })

Emitted(k, id) == \E i \in 1..Len(detected[k]) : detected[k][i].id = id

EmittedScore(k, id) ==
    detected[k][CHOOSE i \in 1..Len(detected[k]) : detected[k][i].id = id].score

(* The fraction of short gaps is above 0.3, and the emitted score is that   *)
(* fraction.                                                                *)
BurstEmittedOnFraction ==
    /\ Emitted(1, "burst_pattern") <=> (10 * ShortGaps > 3 * Len(Gaps))
    /\ Emitted(1, "burst_pattern") =>
          EmittedScore(1, "burst_pattern") = (1000 * ShortGaps) \div Len(Gaps)

(* C19 as stated: for every record list with at least two timestamped       *)
(* records, burst_pattern is emitted exactly when the fraction of adjacent  *)
(* gaps shorter than 10 s is above 0.3, with that fraction as score.        *)
C19_BurstFromTwoRecords ==
    (Analyzed /\ Len(SortedStamps) >= 2) => BurstEmittedOnFraction

(* C19 amended: the same for every record list with at least three          *)
(* timestamped records; with fewer than three burst_pattern is not emitted. *)
C19_BurstFromThreeRecords ==
    Analyzed =>
        /\ Len(SortedStamps) >= 3 => BurstEmittedOnFraction
        /\ Len(SortedStamps) < 3 => ~Emitted(1, "burst_pattern")

(* Three timestamps out of order, one of two gaps short. *)
C19_Witness ==
    /\ Analyzed
    /\ Len(SortedStamps) = 3
    /\ Timestamps(history) # SortedStamps
    /\ ShortGaps = 1
    /\ Emitted(1, "burst_pattern")
    /\ EmittedScore(1, "burst_pattern") = 500

(* The gaps strictly between 0 and 3600 s. *)
GapsInRange ==
    LET inside(g) == g > 0 /\ g < 3600
    IN  SelectSeq(Gaps, inside)

(* CV < 0.5 for the gaps in range: with k gaps of sum s, CV^2 is            *)
(* sum((k*g - s)^2) / (k * s^2), and CV < 0.5 is 4 * CV^2 < 1.              *)
GapDeviation ==
    LET k == Len(GapsInRange)
        s == SeqSum(GapsInRange)
    IN  SeqSum([ j \in 1..k |-> (k * GapsInRange[j] - s) * (k * GapsInRange[j] - s) ])

CvBelowHalf ==
    LET k == Len(GapsInRange)
        s == SeqSum(GapsInRange)
    IN  4 * GapDeviation < k * s * s

(* steady_rhythm is emitted exactly on at least 3 gaps in range with        *)
(* 1 - min(CV,1) > 0.5; the score is above 0.5, and 1 exactly for equal     *)
(* gaps.                                                                    *)
RhythmEmittedOnGaps ==
    /\ Emitted(1, "steady_rhythm") <=> (Len(GapsInRange) >= 3 /\ CvBelowHalf)
    /\ Emitted(1, "steady_rhythm") =>
          /\ EmittedScore(1, "steady_rhythm") > 500
          /\ (EmittedScore(1, "steady_rhythm") = 1000) <=> (GapDeviation = 0)

(* C20 as stated: at least 3 gaps in range is the only size requirement, so *)
(* four timestamped records with three equal gaps give steady_rhythm with   *)
(* score 1.                                                                 *)
C20_RhythmFromThreeGaps ==
    Analyzed => RhythmEmittedOnGaps

(* C20 amended: steady_rhythm is emitted exactly when there are at least    *)
(* five timestamped records, at least 3 gaps in range and                   *)
(* 1 - min(CV,1) > 0.5; with fewer than five timestamped records it is not  *)
(* emitted.                                                                 *)
C20_RhythmFromFiveRecords ==
    Analyzed =>
        /\ Len(SortedStamps) >= 5 => RhythmEmittedOnGaps
        /\ Len(SortedStamps) < 5 => ~Emitted(1, "steady_rhythm")

(* Five timestamped records with four equal gaps. *)
C20_Witness ==
    /\ Analyzed
    /\ Len(SortedStamps) = 5
    /\ Len(GapsInRange) = 4
    /\ GapDeviation = 0
    /\ Emitted(1, "steady_rhythm")
    /\ EmittedScore(1, "steady_rhythm") = 1000

----------------------------------------------------------------------------
(* Properties of the atomic writer *)

(* C18: for any sequence AtomicWriter::new, write_all*, then finish or an   *)
(* error or a drop at any step, the target holds at every moment either     *)
(* what it held when the writer was created (or stays absent) or the        *)
(* complete new content; it changes only at the rename of a successful      *)
(* finish, and a writer that fails or is dropped before finish leaves the   *)
(* target unchanged and removes its temp file.                              *)
C18_AtomicWrite ==
    /\ [](/\ wstate \in { "open", "failed", "dropped" } => files[TargetPath] = old
          /\ wstate = "finished" => files[TargetPath] = FileOf(payload)
          /\ wstate = "dropped" => ~files[temp_path].exists)
    /\ [][files'[TargetPath] # files[TargetPath] =>
            /\ wstate = "open"
            /\ wstate' = "finished"
            /\ files'[TargetPath] = FileOf(payload)]_vars

(* A second writer replaced, by two write_all calls and a finish, what the  *)
(* first had written.                                                       *)
C18_Witness ==
    /\ wstate = "finished"
    /\ sessions = 2
    /\ writes = 2
    /\ old.exists
    /\ old.bytes # OldBytes
    /\ files[TargetPath] = FileOf(payload)
    /\ files[TargetPath] # old
    /\ ~files[temp_path].exists

----------------------------------------------------------------------------
(* Properties of the error detector *)

(* The number of records whose command name is a status command. *)
StatusRecords ==
    Cardinality({ i \in 1..Len(history) : command_name(history[i]) \in status_commands })

(* The largest count of a single status command, 0 when there is none. *)
LargestStatusCount ==
    LET counts == { NameCount(history, c) : c \in status_commands }
    IN  CHOOSE m \in counts : \A k \in counts : k <= m

(* total = min(1, r + b) as the fraction StatusTotal[1] / StatusTotal[2]:    *)
(* r + b is (2 * StatusRecords + LargestStatusCount) / (2 * records) when   *)
(* the bonus applies.                                                       *)
StatusTotal ==
    LET den == 2 * Len(history)
        largest == LargestStatusCount
        raw == 2 * StatusRecords + (IF largest > 5 THEN largest ELSE 0)
    IN  << IF raw > den THEN den ELSE raw, den >>

StatusScoreIs(total) ==
    Emitted(3, "status_check_loop") =>
        EmittedScore(3, "status_check_loop") = (SCORE_ONE * total[1]) \div total[2]

(* C21 as stated: status_check_loop is emitted exactly when total >= 0.3,   *)
(* with total as its score.                                                 *)
C21_StatusLoopFromThreeTenths ==
    (pc = "analyzed" /\ history # << >>) =>
        LET total == StatusTotal
        IN  /\ Emitted(3, "status_check_loop") <=> (10 * total[1] >= 3 * total[2])
            /\ StatusScoreIs(total)

(* C21 amended: status_check_loop is emitted exactly when total > 0.3, with *)
(* total as its score; three status commands out of ten records emit        *)
(* nothing.                                                                 *)
C21_StatusLoopAboveThreeTenths ==
    (pc = "analyzed" /\ history # << >>) =>
        LET total == StatusTotal
        IN  /\ Emitted(3, "status_check_loop") <=> (10 * total[1] > 3 * total[2])
            /\ StatusScoreIs(total)

(* The signal emitted only by the repetition bonus: six ls in twenty-four   *)
(* records, a fraction of 0.25 and a bonus of 0.125.                        *)
C21_Witness ==
    /\ pc = "analyzed"
    /\ Emitted(3, "status_check_loop")
    /\ LargestStatusCount > 5
    /\ 10 * StatusRecords <= 3 * Len(history)
    /\ EmittedScore(3, "status_check_loop") = 375

----------------------------------------------------------------------------
(* Properties of the diversity detector *)

CategoryIds ==
    { "git_heavy", "editor_focused", "build_cycle", "system_admin",
      "package_operations" }

AllowListOf(id) ==
    CASE id = "git_heavy"          -> git_commands
      [] id = "editor_focused"     -> editor_commands
      [] id = "build_cycle"        -> build_commands
      [] id = "system_admin"       -> system_commands
      [] id = "package_operations" -> package_commands

ScaleOf(id) == IF id = "git_heavy" THEN 3 ELSE 4

(* The number of records whose command name is in the allow-list of id. *)
InCategory(id) ==
    Cardinality({ i \in 1..Len(history) : command_name(history[i]) \in AllowListOf(id) })

(* The score of a category signal is min(ratio * scale, 1). *)
CategoryScoreIsScaledRatio(id) ==
    Emitted(4, id) =>
        EmittedScore(4, id)
            = f64_min((SCORE_ONE * InCategory(id) * ScaleOf(id)) \div Len(history),
                      SCORE_ONE)

(* C22 as stated: each of the five category signals is emitted exactly when *)
(* the fraction of records in its allow-list is greater than 0.1, with      *)
(* score min(ratio * scale, 1), scale 3 for git_heavy and 4 for the others. *)
C22_CategoriesAboveOneTenth ==
    (pc = "analyzed" /\ history # << >>) =>
        \A id \in CategoryIds :
            /\ Emitted(4, id) <=> (10 * InCategory(id) > Len(history))
            /\ CategoryScoreIsScaledRatio(id)

(* C22 amended: git_heavy is emitted exactly when its fraction is greater   *)
(* than 0.15, each of the other four exactly when its fraction is greater   *)
(* than 0.1; the scores are as stated.                                      *)
C22_CategoriesAboveTheirThreshold ==
    (pc = "analyzed" /\ history # << >>) =>
        \A id \in CategoryIds :
            /\ Emitted(4, id)
                  <=> (IF id = "git_heavy"
                       THEN 100 * InCategory(id) > 15 * Len(history)
                       ELSE 10 * InCategory(id) > Len(history))
            /\ CategoryScoreIsScaledRatio(id)

(* One git command in eight records: editor_focused and package_operations  *)
(* are emitted at 0.5 for the same fraction, build_cycle at its cap, and    *)
(* git_heavy is not.                                                        *)
C22_Witness ==
    /\ pc = "analyzed"
    /\ InCategory("git_heavy") = 1
    /\ InCategory("editor_focused") = 1
    /\ Len(history) = 8
    /\ ~Emitted(4, "git_heavy")
    /\ Emitted(4, "editor_focused")
    /\ EmittedScore(4, "editor_focused") = 500
    /\ Emitted(4, "package_operations")
    /\ Emitted(4, "build_cycle")
    /\ EmittedScore(4, "build_cycle") = 1000

----------------------------------------------------------------------------
(* Properties of the cadence *)

Stamps == Timestamps(history)

(* The span between the smallest and the largest timestamp, in seconds. *)
Span == IF Stamps = << >> THEN 0 ELSE SeqMax(Stamps) - SeqMin(Stamps)

(* Commands per hour is defined: two timestamped records or more, and a     *)
(* span of 0.1 hours or more.                                               *)
CphDefined == Len(Stamps) >= 2 /\ 10 * Span >= 3600

(* Commands per hour, Len(Stamps) / (Span / 3600), is above, or below, c. *)
CphAbove(c) == CphDefined /\ 3600 * Len(Stamps) > c * Span

CphBelow(c) == CphDefined /\ 3600 * Len(Stamps) < c * Span

----------------------------------------------------------------------------
(* Properties of the typo rate *)

(* The records whose command name has length <= 3 and is not in the         *)
(* short-command allow-list.                                                *)
TypoRecords ==
    Cardinality({ i \in 1..Len(history) :
                    /\ Len(command_name(history[i])) <= 3
                    /\ ~is_known_short_command(command_name(history[i])) })

TypoIds == { "typo_rate_high", "typo_rate_medium", "typo_rate_low" }

----------------------------------------------------------------------------
(* Properties of the pairs of adjacent records *)

(* The number of positions at which two commands of the same length differ, *)
(* and the absolute difference of their lengths otherwise.                  *)
PairDistance(a, b) ==
    IF Len(a) = Len(b)
    THEN Cardinality({ k \in 1..Len(a) : a[k] # b[k] })
    ELSE IF Len(a) > Len(b) THEN Len(a) - Len(b) ELSE Len(b) - Len(a)

(* The records i and i + 1 are a likely correction. *)
LikelyCorrection(i) ==
    LET a == history[i].command
        b == history[i + 1].command
        len_diff == IF Len(a) > Len(b) THEN Len(a) - Len(b) ELSE Len(b) - Len(a)
    IN  /\ len_diff <= 2
        /\ PairDistance(a, b) > 0
        /\ PairDistance(a, b) <= 2

CorrectionPairs == Cardinality({ i \in 1..(Len(history) - 1) : LikelyCorrection(i) })

IdenticalPairs ==
    Cardinality({ i \in 1..(Len(history) - 1) : history[i].command = history[i + 1].command })

(* C26: repeat_commands is emitted iff the fraction of adjacent record      *)
(* pairs whose command strings are identical is greater than 0.2, with that *)
(* fraction as score; a list of fewer than two records never emits it.      *)
C26_RepeatCommands ==
    (pc = "analyzed") =>
        /\ Emitted(3, "repeat_commands")
              <=> (Len(history) >= 2 /\ 10 * IdenticalPairs > 2 * (Len(history) - 1))
        /\ Emitted(3, "repeat_commands") =>
              EmittedScore(3, "repeat_commands")
                  = (SCORE_ONE * IdenticalPairs) \div (Len(history) - 1)
        /\ Len(history) < 2 => ~Emitted(3, "repeat_commands")

(* Two identical pairs in ten are a fraction of exactly 0.2 and emit        *)
(* nothing.                                                                 *)
C26_Witness ==
    /\ pc = "analyzed"
    /\ Len(history) = 11
    /\ IdenticalPairs = 2
    /\ ~Emitted(3, "repeat_commands")

----------------------------------------------------------------------------
(* Properties of the hour distribution *)

(* The number of hour-of-day buckets holding at least one timestamped       *)
(* record.                                                                  *)
ActiveHours ==
    Cardinality({ h \in 0..23 :
                    \E i \in 1..Len(history) :
                        HasTimestamp(history[i]) /\ hour(history[i]) = h })

(* concentration = 1 - ActiveHours / 24 is above 0.6, below 0.3 *)
ConcentrationAbove06 == 10 * (24 - ActiveHours) > 6 * 24

ConcentrationBelow03 == 10 * (24 - ActiveHours) < 3 * 24

HourSignalsFollowConcentration ==
    /\ Emitted(2, "time_concentrated") <=> ConcentrationAbove06
    /\ Emitted(2, "time_spread") <=> ConcentrationBelow03
    /\ ~(Emitted(2, "time_concentrated") /\ Emitted(2, "time_spread"))
    /\ (~ConcentrationAbove06 /\ ~ConcentrationBelow03) =>
          (~Emitted(2, "time_concentrated") /\ ~Emitted(2, "time_spread"))

(* C27 as stated: TemporalSignals emits time_concentrated iff concentration *)
(* > 0.6 and time_spread iff concentration < 0.3, never both, and neither   *)
(* for a concentration in [0.3, 0.6].                                       *)
C27_HourConcentration ==
    (pc = "analyzed") => HourSignalsFollowConcentration

(* C27 amended: the same for a list with at least one timestamped record;   *)
(* a list with no timestamped record emits neither signal.                  *)
C27_HourConcentrationOfStampedLists ==
    (pc = "analyzed") =>
        IF Stamps # << >>
        THEN HourSignalsFollowConcentration
        ELSE ~Emitted(2, "time_concentrated") /\ ~Emitted(2, "time_spread")

(* Seventeen active hours: time_spread with score 17/24. *)
C27_Witness ==
    /\ pc = "analyzed"
    /\ ActiveHours = 17
    /\ Emitted(2, "time_spread")
    /\ EmittedScore(2, "time_spread") = 708
    /\ ~Emitted(2, "time_concentrated")

----------------------------------------------------------------------------
(* Properties of the collection returned by signals::analyze *)

EachIdOnce(sigs) ==
    \A i, j \in 1..Len(sigs) : sigs[i].id = sigs[j].id => i = j

HasId(sigs, id) == \E i \in 1..Len(sigs) : sigs[i].id = id

ExclusivePairs ==
    { << "cadence_high", "cadence_low" >>,
      << "command_diversity_high", "command_diversity_low" >>,
      << "weekend_warrior", "weekday_bound" >>,
      << "time_concentrated", "time_spread" >> }

TypoRateIds == { "typo_rate_high", "typo_rate_medium", "typo_rate_low" }

(* The orders in which four detector results can be merged. *)
DetectorOrders == PermutationsOf(4)

(* The merge of the four detector results taken in the order p. *)
MergedInOrder(p) ==
    merge_all(SignalCollection_new, [ i \in 1..4 |-> detected[p[i]] ], 1)

(* C28: the collection returned by signals::analyze holds each signal id at *)
(* most once, never both members of an exclusive pair and at most one       *)
(* typo_rate_* signal; score(id) is the same for every order in which the   *)
(* four detector results are merged.                                        *)
C28_AnalyzeResultIsConsistent ==
    (pc = "analyzed") =>
        /\ EachIdOnce(signals)
        /\ \A pair \in ExclusivePairs :
              ~(HasId(signals, pair[1]) /\ HasId(signals, pair[2]))
        /\ Cardinality({ id \in TypoRateIds : HasId(signals, id) }) <= 1
        /\ LET returned == [ i \in 1..Len(signals) |->
                               SignalCollection_score(signals, signals[i].id) ]
           IN  \A p \in DetectorOrders :
                  LET merged == MergedInOrder(p)
                  IN  /\ Len(merged) = Len(signals)
                      /\ \A i \in 1..Len(signals) :
                            SignalCollection_score(merged, signals[i].id) = returned[i]

(* All four detectors emitted, among them a typo tier and one member of an  *)
(* exclusive pair.                                                          *)
C28_Witness ==
    /\ pc = "analyzed"
    /\ \A k \in 1..4 : detected[k] # << >>
    /\ HasId(signals, "typo_rate_high")
    /\ HasId(signals, "time_concentrated")
    /\ MergedInOrder([ i \in 1..4 |-> 5 - i ]) # signals

----------------------------------------------------------------------------
(* Determinism of signals::analyze *)

(* C29: signals::analyze is a deterministic function of the record list:    *)
(* every run on the same records returns the same sequence of (id, score,   *)
(* note), whichever command the iteration of the count map of               *)
(* detect_tool_fixation yields among those with the highest count.          *)
C29_AnalyzeIsDeterministic ==
    (pc = "analyzed" /\ history # << >>) =>
        \A top \in TopCommands(history) : analyze(history, top) = signals

----------------------------------------------------------------------------
(* Properties of two concurrent write_atomic calls *)

BothReturned == \A t \in Callers : calls[t].at = "returned"

(* C30: under every interleaving of two write_atomic calls of one process   *)
(* on the same target both calls succeed, and once both have returned the   *)
(* target holds exactly the complete content of one of the two calls and no *)
(* temp file is left behind.                                                *)
C30_ConcurrentWritesBothSucceed ==
    BothReturned =>
        /\ \A t \in Callers : calls[t].result = "ok"
        /\ links[TargetPath] # NoFile
        /\ \E t \in Callers : inodes[links[TargetPath]] = calls[t].content
        /\ links[temp_path] = NoFile

====
